---- MODULE Spec2Model ----
(***************************************************************************)
(* A model of the preview cache, the decoder and the thumbnails of        *)
(* Openroom (src-tauri/src/image_io.rs), the GPU context                   *)
(* (src-tauri/src/gpu.rs), the commands that drive them                    *)
(* (src-tauri/src/commands.rs) and the asset registry                      *)
(* (src-tauri/src/state.rs).                                               *)
(*                                                                         *)
(* Strings (asset ids, cache keys) are sequences of one-character strings, *)
(* so that format!("{asset_id}:{max_dimension}") and starts_with are       *)
(* computed, not assumed.  An image is [w, h, gen, of]: its size, the     *)
(* number of the decode its pixels come from and the file they show.       *)
(***************************************************************************)
EXTENDS Integers, Sequences, FiniteSets, TLC

\* ------------------------------------------------------------------ bounds
\* successful decodes in one behaviour (each gives the image a fresh gen)
MaxDecodes == 3
\* asset ids (Uuid::new_v4) handed out by folder scans in one behaviour
MaxIds == 3

\* ------------------------------------------------- constants of image_io.rs
PREVIEW_CACHE_ASSETS == 2
PREVIEW_MIN_DIM == 480
PREVIEW_MAX_DIM == 3200
PREVIEW_MASTER_BASE == 1920
\* scaled_preview: master_dim.saturating_sub(4)
NEAR_MASTER == 4
\* render_preview_with_recipe: max_dimension.unwrap_or(1440)
DEFAULT_DIM == 1440

None == "none"
\* an Option<u32> is <<>> (None) or <<n>> (Some(n))
unwrap_or(opt, default) == IF opt = <<>> THEN default ELSE opt[1]
\* the worker threads that may run a command at the same time
Threads == {1, 2}

Max(a, b) == IF a >= b THEN a ELSE b
Min(a, b) == IF a <= b THEN a ELSE b
\* u32::saturating_sub
SatSub(a, b) == IF a >= b THEN a - b ELSE 0

\* ----------------------------------------------------------------- strings
Digits == <<"0", "1", "2", "3", "4", "5", "6", "7", "8", "9">>

RECURSIVE FormatU32(_)
\* Display of a u32: its decimal digits, no padding
FormatU32(n) ==
    IF n < 10 THEN <<Digits[n + 1]>>
    ELSE FormatU32(n \div 10) \o <<Digits[(n % 10) + 1]>>

\* str::starts_with
starts_with(k, prefix) ==
    /\ Len(k) >= Len(prefix)
    /\ SubSeq(k, 1, Len(prefix)) = prefix

cache_key(asset_id, max_dimension) ==
    asset_id \o <<":">> \o FormatU32(max_dimension)

\* normalize_dimension without the lower bound: dim.min(PREVIEW_MAX_DIM)
normalize_dimension_upper(dim) ==
    IF dim > PREVIEW_MAX_DIM THEN PREVIEW_MAX_DIM ELSE dim

normalize_dimension(dim) ==
    IF dim < PREVIEW_MIN_DIM THEN PREVIEW_MIN_DIM
    ELSE IF dim > PREVIEW_MAX_DIM THEN PREVIEW_MAX_DIM
    ELSE dim

\* ------------------------------------------------------- f32 arithmetic
\* (a as f32 / b as f32) and (q * h as f32) as u32, for integers below 2^24
\* (exact as f32), each operation rounded to 24 significant bits, ties to
\* even.  A positive f32 is [m, k], the value m / 2^k.
RECURSIVE Pow2(_)
Pow2(n) == IF n = 0 THEN 1 ELSE 2 * Pow2(n - 1)

RECURSIVE BitLen(_)
BitLen(n) == IF n = 0 THEN 0 ELSE 1 + BitLen(n \div 2)

RoundEven(kept, rem, half) ==
    IF rem > half \/ (rem = half /\ kept % 2 = 1) THEN kept + 1 ELSE kept

RECURSIVE DivBits(_, _, _, _)
\* binary long division of the remainder r by b until q has 24 bits
DivBits(q, r, b, k) ==
    IF q >= Pow2(23) THEN [q |-> q, r |-> r, k |-> k]
    ELSE IF 2 * r >= b THEN DivBits(2 * q + 1, 2 * r - b, b, k + 1)
    ELSE DivBits(2 * q, 2 * r, b, k + 1)

F32Div(a, b) ==
    IF a = 0 THEN [m |-> 0, k |-> 0]
    ELSE LET d == DivBits(a \div b, a % b, b, 0)
         IN  [m |-> RoundEven(d.q, 2 * d.r, b), k |-> d.k]

\* trunc(RN(x * h)) for x = [m, k]; the product is kept as hi * 4096 + lo
F32MulTrunc(x, h) ==
    LET mh == x.m \div 4096
        ml == x.m % 4096
        lt == ml * h
        hi == mh * h + (lt \div 4096)
        lo == lt % 4096
        L  == IF hi = 0 THEN BitLen(lo) ELSE BitLen(hi) + 12
        s  == Max(L - 24, 0)
        kept == IF s = 0 THEN hi * 4096 + lo
                ELSE IF s <= 12 THEN hi * Pow2(12 - s) + (lo \div Pow2(s))
                ELSE hi \div Pow2(s - 12)
        rem  == IF s = 0 THEN 0
                ELSE IF s <= 12 THEN lo % Pow2(s)
                ELSE (hi % Pow2(s - 12)) * 4096 + lo
        r == IF s = 0 THEN kept ELSE RoundEven(kept, rem, Pow2(s - 1))
    IN  IF s >= x.k THEN r * Pow2(s - x.k) ELSE r \div Pow2(x.k - s)

target_size(w, h, max_dimension) ==
    IF w = 0 \/ h = 0 THEN <<1, 1>>
    ELSE IF w >= h
         THEN <<max_dimension, Max(F32MulTrunc(F32Div(max_dimension, w), h), 1)>>
         ELSE <<Max(F32MulTrunc(F32Div(max_dimension, h), w), 1), max_dimension>>

\* ------------------------------------------------------------------ files
\* The files a folder may hold, in collect_assets' order (file name, lower
\* case), and what load_dynamic_image makes of each: an image of the file's
\* size, or an error from every backend.
FileOrder == <<"bad.dng", "land.jpg", "port.jpg", "small.png">>
Files == {FileOrder[i] : i \in 1..Len(FileOrder)}

Source(path) ==
    CASE path = "land.jpg"  -> [w |-> 4000, h |-> 3000]
      [] path = "port.jpg"  -> [w |-> 3000, h |-> 4000]
      [] path = "small.png" -> [w |-> 600, h |-> 400]

\* whether some backend of load_dynamic_image decodes the file
Decodable(path) == path \in {"land.jpg", "port.jpg", "small.png"}

\* the pixels of a decoded file: the file's number (0: no file's)
PixelsOf(path) == CHOOSE i \in 1..Len(FileOrder) : FileOrder[i] = path

\* Uuid::new_v4().to_string(): the i-th id handed out
Letters == <<"a", "b", "c", "d", "e", "f", "g", "h">>
IdOf(i) == <<Letters[i]>>

\* ---------------------------------------------------------------- decoder
\* What the libraries make of one file: image::open, fs::read,
\* image::load_from_memory, Processor::process_16bit and libraw_to_rgba_u16,
\* process_8bit and libraw_to_rgba_u8, rawloader::decode_file, decode_dummy;
\* TRUE is Ok. raw_to_rgba has no Err.
Outcomes ==
    [open : BOOLEAN, read : BOOLEAN, mem : BOOLEAN, lr16 : BOOLEAN,
     conv16 : BOOLEAN, lr8 : BOOLEAN, conv8 : BOOLEAN, rawl : BOOLEAN,
     dummy : BOOLEAN]

\* a decode result: the backends attempted, in order, and either the backend
\* whose image is returned or the error message, piece by piece
Decoded(tried) == [ok |-> TRUE, by |-> tried[Len(tried)], tried |-> tried, msg |-> <<>>]
DecodeErr(tried, msg) == [ok |-> FALSE, by |-> "none", tried |-> tried, msg |-> msg]

decode_with_libraw(f) ==
    IF f.lr16
    THEN IF f.conv16 THEN Decoded(<<"libraw16">>)
         ELSE DecodeErr(<<"libraw16">>,
                        <<"LibRaw returned unexpected buffer size (", "samples16", ")">>)
    ELSE IF f.lr8
    THEN IF f.conv8 THEN Decoded(<<"libraw16", "libraw8">>)
         ELSE DecodeErr(<<"libraw16", "libraw8">>,
                        <<"LibRaw returned unexpected buffer size (", "bytes8", ")">>)
    ELSE DecodeErr(<<"libraw16", "libraw8">>,
                   <<"LibRaw decode failed (16-bit: ", "err16", "; 8-bit: ",
                     "err8", ")">>)

load_dynamic_image(f) ==
    IF f.open THEN Decoded(<<"open">>)
    ELSE IF ~f.read
    THEN DecodeErr(<<"open">>, <<"Failed to read image bytes: ", "read_err">>)
    ELSE IF f.mem THEN Decoded(<<"open", "memory">>)
    ELSE LET libraw == decode_with_libraw(f)
             sofar == <<"open", "memory">> \o libraw.tried
         IN  IF libraw.ok THEN Decoded(sofar)
             ELSE IF f.rawl THEN Decoded(sofar \o <<"rawloader">>)
             ELSE IF f.dummy THEN Decoded(sofar \o <<"rawloader", "dummy">>)
             ELSE DecodeErr(sofar \o <<"rawloader", "dummy">>,
                            <<"Failed to decode image: ", "open_err",
                              "; LibRaw fallback: ">> \o libraw.msg \o
                            <<"; raw decode: ", "raw_err", "; dummy decode: ",
                              "dummy_err">>)

\* the library calls on a listed file: image::open decodes a decodable file;
\* on any other, and on a file overwritten since (broken), the bytes are read
\* and every backend fails
BackendsOn(path, overwritten) ==
    IF Decodable(path) /\ path \notin overwritten
    THEN [f \in {"open", "read", "mem", "lr16", "conv16", "lr8", "conv8",
                 "rawl", "dummy"} |-> TRUE]
    ELSE [f \in {"open", "read", "mem", "lr16", "conv16", "lr8", "conv8",
                 "rawl", "dummy"} |-> f = "read"]

\* ----------------------------------------------------------------- images
resize_rgba_preserve_aspect(img, max_dimension) ==
    LET md == Max(max_dimension, 1)
        sz == target_size(img.w, img.h, md)
    IN  IF sz[1] = img.w /\ sz[2] = img.h THEN img
        ELSE [img EXCEPT !.w = sz[1], !.h = sz[2]]

\* render_resized on a decoded source image
render_resized(img, max_dimension) ==
    LET target == Max(max_dimension, 1)
        source_max == Max(Max(img.w, img.h), 1)
        clamped_target == Min(target, source_max)
    IN  resize_rgba_preserve_aspect(img, clamped_target)

\* encode_png_fast: the bytes are a function of the size and the pixels
encode_png_fast(img) == <<img.w, img.h, img.of>>

\* master_preview: the dimension a missing master is decoded at
decode_target(target) == Min(Max(target, PREVIEW_MASTER_BASE), PREVIEW_MAX_DIM)

\* store_master: the entry built from the decoded image
CachedPreview(img) == [buf |-> img, max_dim |-> Max(Max(img.w, img.h), 1)]

\* ------------------------------------------------------------------- maps
EmptyMap == [k \in {} |-> None]
MapPut(m, k, v) == [x \in DOMAIN m \cup {k} |-> IF x = k THEN v ELSE m[x]]
MapRemove(m, k) == [x \in DOMAIN m \ {k} |-> m[x]]

\* drop_variants_for that purges nothing
drop_variants_for_nothing(vs, asset_id) == vs

\* PREVIEW_VARIANTS.retain(|k, _| !k.starts_with(&prefix))
drop_variants_for(vs, asset_id) ==
    LET prefix == asset_id \o <<":">>
    IN  [k \in {x \in DOMAIN vs : ~starts_with(x, prefix)} |-> vs[k]]

\* lru.iter().position(..) / lru.remove(pos)
RECURSIVE RemoveFirst(_, _)
RemoveFirst(l, id) ==
    IF l = <<>> THEN <<>>
    ELSE IF Head(l) = id THEN Tail(l)
    ELSE <<Head(l)>> \o RemoveFirst(Tail(l), id)

\* touch_asset that leaves an id already in the list where it is
touch_asset_no_move(l, asset_id) ==
    IF \E i \in 1..Len(l) : l[i] = asset_id THEN l ELSE Append(l, asset_id)

\* the body of touch_asset, under the lock
touch_asset(l, asset_id) == Append(RemoveFirst(l, asset_id), asset_id)

RECURSIVE PopWhileOver(_, _)
\* the loop of evict_if_needed, under the lock
PopWhileOver(l, evicted) ==
    IF Len(l) > PREVIEW_CACHE_ASSETS
    THEN PopWhileOver(Tail(l), Append(evicted, Head(l)))
    ELSE [lru |-> l, evicted |-> evicted]

\* ------------------------------------------------------------------ state
VARIABLES
    masters,    \* PREVIEW_MASTERS: asset id -> CachedPreview
    variants,   \* PREVIEW_VARIANTS: cache key -> image
    lru,        \* PREVIEW_LRU: asset ids, least recently used first
    lruOwner,   \* the thread holding PREVIEW_LRU's mutex, or 0
    mguard,     \* threads holding a Ref into PREVIEW_MASTERS
    vguard,     \* threads holding a Ref into PREVIEW_VARIANTS
    registry,   \* ASSET_REGISTRY: asset id -> path
    nextId,     \* asset ids handed out so far
    decodes,    \* successful decodes of master_preview so far
    th,         \* each thread's position and locals
    uses,       \* observer: the assets successfully requested since the last
                \* clear, each once, least recently requested first
    run,        \* observer: the latest consecutive successful requests for
                \* one asset (the last RunLen of them): [dim, dec]
    start,      \* observer: decodes when the running request was called
                \* (0 when none runs)
    ret,        \* observer: what the command that returned last returned,
                \* [ok, val]
    before,     \* observer: the caches when the running command was called
    served,     \* observer: the bytes of each asset's first thumbnail, and
                \* the threads whose call began after it was returned
    broken,     \* the files that have become unreadable since they were listed
    thumbs,     \* the thumbnail directory: asset id -> file contents
    gpuCell,    \* GPU_CONTEXT: "empty", "ready" (Ok) or "failed" (Err)
    gpuInit,    \* the thread inside GPU_CONTEXT's initializer, or 0
    gpuLimit,   \* max_texture_dimension_2d of the device of a ready context
    inits,      \* how many times init_gpu_context has been entered
    gth,        \* each thread's position in a GPU-backed image step
    input,      \* the argument a pure function is applied to
    output      \* the value it returned

cache == <<masters, variants, lru>>
locks == <<lruOwner, mguard, vguard>>
obsv == <<uses, run, start>>
prog == <<masters, variants, lru, lruOwner, mguard, vguard, registry, nextId,
          decodes, th>>
outc == <<ret, before, served>>
gpu == <<gpuCell, gpuInit, gpuLimit, inits, gth>>
pure == <<input, output>>
aux == <<broken, thumbs, gpu, pure>>
vars == <<masters, variants, lru, lruOwner, mguard, vguard, registry, nextId,
          decodes, th, uses, run, start, ret, before, served, broken, thumbs,
          gpuCell,
          gpuInit, gpuLimit, inits, gth, input, output>>

Idle ==
    [pc |-> "idle", asset |-> None, path |-> None, target |-> 0,
     master |-> None, img |-> None, site |-> None, evicted |-> <<>>,
     assets |-> <<>>]

\* a thread outside every GPU-backed image step
GIdle ==
    [pc |-> "idle", fn |-> "none", src |-> <<0, 0>>, dst |-> <<0, 0>>,
     res |-> "none", panicked |-> FALSE]

\* ---------------------------------------------------------------- observer
\* The observer watches the requests of single-threaded use; it is no part of
\* the program.
RunLen == 3
NoRun == [asset |-> <<>>, reqs |-> <<>>]
NoRet == [cmd |-> "none", ok |-> FALSE, val |-> <<>>]
NoneServed == [bytes |-> EmptyMap, after |-> {}]

LastN(q, n) == IF Len(q) <= n THEN q ELSE SubSeq(q, Len(q) - n + 1, Len(q))

\* the recency order after a successful request for id
Recency(order, id) ==
    LET Other(x) == x # id IN Append(SelectSeq(order, Other), id)

\* the run after a successful request of thread t
RunAfter(t) ==
    LET e == [dim |-> th[t].target, dec |-> decodes - start]
    IN  IF run.asset = th[t].asset
        THEN [run EXCEPT !.reqs = LastN(Append(run.reqs, e), RunLen)]
        ELSE [asset |-> th[t].asset, reqs |-> <<e>>]

ProgInit ==
    /\ masters = EmptyMap
    /\ variants = EmptyMap
    /\ lru = <<>>
    /\ lruOwner = 0
    /\ mguard = {}
    /\ vguard = {}
    /\ registry = EmptyMap
    /\ nextId = 0
    /\ decodes = 0
    /\ th = [t \in Threads |-> Idle]
    /\ broken = {}
    /\ thumbs = EmptyMap
    /\ gpuCell = "empty"
    /\ gpuInit = 0
    /\ gpuLimit = 0
    /\ inits = 0
    /\ gth = [t \in Threads |-> GIdle]

ObsInit ==
    /\ uses = <<>> /\ run = NoRun /\ start = 0
    /\ ret = NoRet /\ before = <<EmptyMap, EmptyMap, <<>>>>
    /\ served = NoneServed

Init == ProgInit /\ ObsInit /\ input = <<>> /\ output = <<>>

\* --------------------------------------------------------------- commands
Upd(t, r) == th' = [th EXCEPT ![t] = r]

\* decodes a request that has not yet reached its decode may still make
Pending == Cardinality({u \in Threads : th[u].pc \in {"mp_get", "decode"}})

\* render_preview: path_for (an unknown id returns "Asset not found"), then
\* render_preview_with_recipe up to the call of master_preview
\* (target = normalize_dimension(max_dimension.unwrap_or(1440)))
RenderPreviewCall(t, asset_id, max_dimension, observed) ==
    /\ th[t].pc = "idle"
    /\ decodes + Pending < MaxDecodes
    /\ IF asset_id \in DOMAIN registry
       THEN Upd(t, [Idle EXCEPT
                !.pc = "mp_get", !.asset = asset_id, !.path = registry[asset_id],
                !.target = normalize_dimension(
                    unwrap_or(max_dimension, DEFAULT_DIM))])
       ELSE Upd(t, Idle)
    /\ start' = IF "run" \in observed /\ asset_id \in DOMAIN registry
                THEN decodes ELSE start
    /\ run' = IF "run" \in observed /\ asset_id \notin DOMAIN registry
              THEN NoRun ELSE run
    /\ ret' = IF "ret" \notin observed THEN ret
              ELSE IF asset_id \in DOMAIN registry THEN NoRet
              ELSE [cmd |-> "render_preview", ok |-> FALSE,
                    val |-> <<"Asset not found">>]
    /\ before' = IF "ret" \in observed THEN <<masters, variants, lru>>
                 ELSE before
    /\ UNCHANGED <<aux, served, cache, locks, registry, nextId, decodes, uses>>

\* scaled_preview that returns the master only at or above its max_dim
AfterMasterExact(r, master) ==
    IF r.target >= master.max_dim
    THEN [r EXCEPT !.pc = "encode", !.master = master, !.img = master.buf]
    ELSE [r EXCEPT !.pc = "sp_get", !.master = master]

\* scaled_preview after master_preview has returned `master`
AfterMaster(r, master) ==
    IF r.target >= SatSub(master.max_dim, NEAR_MASTER)
    THEN [r EXCEPT !.pc = "encode", !.master = master, !.img = master.buf]
    ELSE [r EXCEPT !.pc = "sp_get", !.master = master]

\* master_preview whose hit test is target < hit.max_dim
MasterGetStrict(t) ==
    /\ th[t].pc = "mp_get"
    /\ IF /\ th[t].asset \in DOMAIN masters
          /\ th[t].target < masters[th[t].asset].max_dim
       THEN /\ mguard' = mguard \cup {t}
            /\ Upd(t, [th[t] EXCEPT !.pc = "touch_lock", !.site = "mp_hit",
                                    !.master = masters[th[t].asset]])
       ELSE /\ Upd(t, [th[t] EXCEPT !.pc = "decode"])
            /\ UNCHANGED mguard
    /\ UNCHANGED <<aux, outc, cache, lruOwner, vguard, registry, nextId, decodes, obsv>>

\* master_preview: PREVIEW_MASTERS.get; on a hit the Ref is held across
\* touch_asset
MasterGet(t) ==
    /\ th[t].pc = "mp_get"
    /\ IF /\ th[t].asset \in DOMAIN masters
          /\ th[t].target <= masters[th[t].asset].max_dim
       THEN /\ mguard' = mguard \cup {t}
            /\ Upd(t, [th[t] EXCEPT !.pc = "touch_lock", !.site = "mp_hit",
                                    !.master = masters[th[t].asset]])
       ELSE /\ Upd(t, [th[t] EXCEPT !.pc = "decode"])
            /\ UNCHANGED mguard
    /\ UNCHANGED <<aux, outc, cache, lruOwner, vguard, registry, nextId, decodes, obsv>>

PreviewOk(bytes) == [cmd |-> "render_preview_with_recipe", ok |-> TRUE, val |-> bytes]
PreviewErr(msg) == [cmd |-> "render_preview_with_recipe", ok |-> FALSE, val |-> msg]

\* master_preview whose failed decode forgets the master it found too small
DecodeForgetful(t, observed) ==
    /\ th[t].pc = "decode"
    /\ IF ~load_dynamic_image(BackendsOn(th[t].path, broken)).ok
       THEN /\ Upd(t, Idle)
            /\ run' = IF "run" \in observed THEN NoRun ELSE run
            /\ start' = 0
            /\ ret' = IF "ret" \in observed
                      THEN PreviewErr(load_dynamic_image(
                               BackendsOn(th[t].path, broken)).msg)
                      ELSE ret
            /\ UNCHANGED decodes
       ELSE /\ decodes' = decodes + 1
            /\ UNCHANGED <<run, start, ret>>
            /\ Upd(t, [th[t] EXCEPT
                    !.pc = "sm_insert",
                    !.img = render_resized(
                        [w |-> Source(th[t].path).w, h |-> Source(th[t].path).h,
                         gen |-> decodes + 1, of |-> PixelsOf(th[t].path)],
                        decode_target(th[t].target))])
    /\ masters' = IF load_dynamic_image(BackendsOn(th[t].path, broken)).ok
                  THEN masters ELSE MapRemove(masters, th[t].asset)
    /\ UNCHANGED <<aux, before, served, variants, lru, locks, registry, nextId, uses>>

\* master_preview: render_resized(path, decode_target)?
Decode(t, observed) ==
    /\ th[t].pc = "decode"
    /\ IF ~load_dynamic_image(BackendsOn(th[t].path, broken)).ok
       THEN /\ Upd(t, Idle)
            /\ run' = IF "run" \in observed THEN NoRun ELSE run
            /\ start' = 0
            /\ ret' = IF "ret" \in observed
                      THEN PreviewErr(load_dynamic_image(
                               BackendsOn(th[t].path, broken)).msg)
                      ELSE ret
            /\ UNCHANGED decodes
       ELSE /\ decodes' = decodes + 1
            /\ UNCHANGED <<run, start, ret>>
            /\ Upd(t, [th[t] EXCEPT
                    !.pc = "sm_insert",
                    !.img = render_resized(
                        [w |-> Source(th[t].path).w, h |-> Source(th[t].path).h,
                         gen |-> decodes + 1, of |-> PixelsOf(th[t].path)],
                        decode_target(th[t].target))])
    /\ UNCHANGED <<aux, before, served, cache, locks, registry, nextId, uses>>

\* store_master: PREVIEW_MASTERS.insert
StoreInsert(t) ==
    /\ th[t].pc = "sm_insert"
    /\ mguard = {}
    /\ masters' = MapPut(masters, th[t].asset, CachedPreview(th[t].img))
    /\ Upd(t, [th[t] EXCEPT !.pc = "sm_drop", !.img = None,
                            !.master = CachedPreview(th[t].img)])
    /\ UNCHANGED <<aux, outc, variants, lru, locks, registry, nextId, decodes, obsv>>

\* store_master: drop_variants_for
StoreDropVariants(t) ==
    /\ th[t].pc = "sm_drop"
    /\ vguard = {}
    /\ variants' = drop_variants_for(variants, th[t].asset)
    /\ Upd(t, [th[t] EXCEPT !.pc = "touch_lock", !.site = "store"])
    /\ UNCHANGED <<aux, outc, masters, lru, locks, registry, nextId, decodes, obsv>>

\* touch_asset: PREVIEW_LRU.lock()
TouchLock(t) ==
    /\ th[t].pc = "touch_lock"
    /\ lruOwner = 0
    /\ lruOwner' = t
    /\ Upd(t, [th[t] EXCEPT !.pc = "touch"])
    /\ UNCHANGED <<aux, outc, cache, mguard, vguard, registry, nextId, decodes, obsv>>

\* touch_asset: the body, and the unlock at its end.  After a hit the caller
\* returns at once (return Ok(hit.clone()), return Ok(existing.clone())),
\* which drops the Ref it holds.
Touch(t) ==
    /\ th[t].pc = "touch"
    /\ lru' = touch_asset(lru, th[t].asset)
    /\ lruOwner' = 0
    /\ mguard' = mguard \ {t}
    /\ vguard' = vguard \ {t}
    /\ Upd(t, CASE th[t].site = "mp_hit" -> AfterMaster(th[t], th[t].master)
                 [] th[t].site = "sp_hit" -> [th[t] EXCEPT !.pc = "encode"]
                 [] OTHER -> [th[t] EXCEPT !.pc = "evict_lock"])
    /\ UNCHANGED <<aux, outc, masters, variants, registry, nextId, decodes, obsv>>

\* where evict_if_needed returns to: store_master's caller, or scaled_preview's
AfterEvict(r) ==
    IF r.site = "store" THEN AfterMaster(r, r.master)
    ELSE [r EXCEPT !.pc = "encode"]

\* evict_if_needed: PREVIEW_LRU.lock()
EvictLock(t) ==
    /\ th[t].pc = "evict_lock"
    /\ lruOwner = 0
    /\ lruOwner' = t
    /\ Upd(t, [th[t] EXCEPT !.pc = "evict_pop"])
    /\ UNCHANGED <<aux, outc, cache, mguard, vguard, registry, nextId, decodes, obsv>>

\* evict_if_needed whose lock guard outlives the if-let: the removals that
\* follow run with PREVIEW_LRU still locked
EvictPopKeepLock(t) ==
    /\ th[t].pc = "evict_pop"
    /\ lru' = PopWhileOver(lru, <<>>).lru
    /\ Upd(t, IF PopWhileOver(lru, <<>>).evicted = <<>>
              THEN AfterEvict(th[t])
              ELSE [th[t] EXCEPT !.pc = "evict_master",
                                 !.evicted = PopWhileOver(lru, <<>>).evicted])
    /\ UNCHANGED <<aux, outc, masters, variants, lruOwner, mguard, vguard, registry, nextId,
                   decodes, obsv>>

\* evict_if_needed: the pop loop, and the unlock at the end of the if-let
EvictPop(t) ==
    /\ th[t].pc = "evict_pop"
    /\ lru' = PopWhileOver(lru, <<>>).lru
    /\ lruOwner' = 0
    /\ Upd(t, IF PopWhileOver(lru, <<>>).evicted = <<>>
              THEN AfterEvict(th[t])
              ELSE [th[t] EXCEPT !.pc = "evict_master",
                                 !.evicted = PopWhileOver(lru, <<>>).evicted])
    /\ UNCHANGED <<aux, outc, masters, variants, mguard, vguard, registry, nextId, decodes, obsv>>

\* evict_if_needed: PREVIEW_MASTERS.remove(&id)
EvictMaster(t) ==
    /\ th[t].pc = "evict_master"
    /\ mguard = {}
    /\ masters' = MapRemove(masters, Head(th[t].evicted))
    /\ Upd(t, [th[t] EXCEPT !.pc = "evict_variants"])
    /\ UNCHANGED <<aux, outc, variants, lru, locks, registry, nextId, decodes, obsv>>

\* evict_if_needed: PREVIEW_VARIANTS.retain for the same id, then the next id
EvictVariants(t) ==
    /\ th[t].pc = "evict_variants"
    /\ vguard = {}
    /\ variants' = drop_variants_for(variants, Head(th[t].evicted))
    /\ Upd(t, IF Tail(th[t].evicted) = <<>>
              THEN AfterEvict([th[t] EXCEPT !.evicted = <<>>])
              ELSE [th[t] EXCEPT !.pc = "evict_master",
                                 !.evicted = Tail(th[t].evicted)])
    /\ UNCHANGED <<aux, outc, masters, lru, locks, registry, nextId, decodes, obsv>>

\* scaled_preview that never finds its variant and resizes the master anew
VariantGetNoReuse(t) ==
    /\ th[t].pc = "sp_get"
    /\ Upd(t, [th[t] EXCEPT
            !.pc = "sp_insert",
            !.img = resize_rgba_preserve_aspect(th[t].master.buf, th[t].target)])
    /\ UNCHANGED <<aux, outc, cache, locks, registry, nextId, decodes, obsv>>

\* scaled_preview: PREVIEW_VARIANTS.get(&key); on a hit the Ref is held across
\* touch_asset, on a miss the master is resized
VariantGet(t) ==
    /\ th[t].pc = "sp_get"
    /\ IF cache_key(th[t].asset, th[t].target) \in DOMAIN variants
       THEN /\ vguard' = vguard \cup {t}
            /\ Upd(t, [th[t] EXCEPT
                    !.pc = "touch_lock", !.site = "sp_hit",
                    !.img = variants[cache_key(th[t].asset, th[t].target)]])
       ELSE /\ Upd(t, [th[t] EXCEPT
                    !.pc = "sp_insert",
                    !.img = resize_rgba_preserve_aspect(th[t].master.buf,
                                                        th[t].target)])
            /\ UNCHANGED vguard
    /\ UNCHANGED <<aux, outc, cache, lruOwner, mguard, registry, nextId, decodes, obsv>>

\* scaled_preview: PREVIEW_VARIANTS.insert(key, arc.clone())
VariantInsert(t) ==
    /\ th[t].pc = "sp_insert"
    /\ vguard = {}
    /\ variants' = MapPut(variants, cache_key(th[t].asset, th[t].target),
                          th[t].img)
    /\ Upd(t, [th[t] EXCEPT !.pc = "touch_lock", !.site = "sp_new"])
    /\ UNCHANGED <<aux, outc, masters, lru, locks, registry, nextId, decodes, obsv>>

\* render_preview_with_recipe: the recipe on a copy of the buffer, encode_png_fast
Encode(t, observed) ==
    /\ th[t].pc = "encode"
    /\ Upd(t, Idle)
    /\ uses' = IF "uses" \in observed THEN Recency(uses, th[t].asset) ELSE uses
    /\ run' = IF "run" \in observed THEN RunAfter(t) ELSE run
    /\ start' = 0
    /\ ret' = IF "ret" \in observed THEN PreviewOk(encode_png_fast(th[t].img))
              ELSE ret
    /\ UNCHANGED <<aux, before, served, cache, locks, registry, nextId, decodes>>

\* ------------------------------------------------------------ open_folder
\* collect_assets: the folder's files in name order, each with a fresh id
Scan(folder, first) ==
    LET InFolder(f) == f \in folder
        files == SelectSeq(FileOrder, InFolder)
    IN  [i \in 1..Len(files) |-> [id |-> IdOf(first + i), path |-> files[i]]]

\* open_folder up to clear_preview_cache: the scan on a blocking thread; a
\* path that is no directory returns the error
OpenFolderCall(t, is_dir, folder) ==
    /\ th[t].pc = "idle"
    /\ IF ~is_dir
       THEN /\ Upd(t, Idle)
            /\ UNCHANGED nextId
       ELSE /\ nextId + Cardinality(folder) <= MaxIds
            /\ nextId' = nextId + Cardinality(folder)
            /\ Upd(t, [Idle EXCEPT !.pc = "clr_masters",
                                   !.assets = Scan(folder, nextId)])
    /\ UNCHANGED <<aux, outc, cache, locks, registry, decodes, obsv>>

\* clear_preview_cache: PREVIEW_MASTERS.clear()
ClearMasters(t) ==
    /\ th[t].pc = "clr_masters"
    /\ mguard = {}
    /\ masters' = EmptyMap
    /\ Upd(t, [th[t] EXCEPT !.pc = "clr_variants"])
    /\ uses' = <<>>
    /\ run' = NoRun
    /\ UNCHANGED <<aux, outc, variants, lru, locks, registry, nextId, decodes, start>>

\* clear_preview_cache: PREVIEW_VARIANTS.clear()
ClearVariants(t) ==
    /\ th[t].pc = "clr_variants"
    /\ vguard = {}
    /\ variants' = EmptyMap
    /\ Upd(t, [th[t] EXCEPT !.pc = "clr_lock"])
    /\ UNCHANGED <<aux, outc, masters, lru, locks, registry, nextId, decodes, obsv>>

\* clear_preview_cache: PREVIEW_LRU.lock()
ClearLock(t) ==
    /\ th[t].pc = "clr_lock"
    /\ lruOwner = 0
    /\ lruOwner' = t
    /\ Upd(t, [th[t] EXCEPT !.pc = "clr_lru"])
    /\ UNCHANGED <<aux, outc, cache, mguard, vguard, registry, nextId, decodes, obsv>>

\* clear_preview_cache: lru.clear(), and the unlock
ClearLru(t) ==
    /\ th[t].pc = "clr_lru"
    /\ lru' = <<>>
    /\ lruOwner' = 0
    /\ Upd(t, [th[t] EXCEPT !.pc = "register"])
    /\ UNCHANGED <<aux, outc, masters, variants, mguard, vguard, registry, nextId, decodes, obsv>>

\* register_assets: ASSET_REGISTRY.clear(), then one insert per asset;
\* open_folder returns the FolderIndex. One step: a request that looks an id
\* up half-way finds it or gets "Asset not found", as it would after or
\* before the whole registration.
RegisterAssets(t) ==
    /\ th[t].pc = "register"
    /\ registry' = [id \in {th[t].assets[i].id : i \in 1..Len(th[t].assets)} |->
                      (CHOOSE a \in {th[t].assets[i] : i \in 1..Len(th[t].assets)} :
                          a.id = id).path]
    /\ Upd(t, Idle)
    /\ UNCHANGED <<aux, outc, cache, locks, nextId, decodes, obsv>>

\* ----------------------------------------------------------------- recipes
\* A slider is an f32, held here in units of 0.00001; the ten sliders of
\* GlobalAdjustments are a sequence in the order of globals_are_identity.
Abs(x) == IF x < 0 THEN -x ELSE x
EPS == 10

\* globals_are_identity with a threshold of zero
globals_are_identity_exact(globals) ==
    \A i \in 1..Len(globals) : Abs(globals[i]) < 0

globals_are_identity(globals) ==
    \A i \in 1..Len(globals) : Abs(globals[i]) < EPS

layers_have_effect(layers) ==
    \E i \in 1..Len(layers) : layers[i].enabled /\ layers[i].opacity > 0

\* the working buffer after a step has run on it: the steps are kept with the
\* pixels (1: globals on the GPU, 2: globals on the CPU, 3: layers)
apply_globals(working, globals, on_gpu) ==
    [working EXCEPT !.edits = @ \o <<IF on_gpu THEN 1 ELSE 2>> \o globals]

apply_layers_in_place(working, layers) ==
    [working EXCEPT !.edits = @ \o <<3, Len(layers)>>]

\* render_preview_with_recipe after scaled_preview has returned `base`:
\* the bytes returned and the steps that ran; recipe is <<>> (None) or <<r>>,
\* on_gpu tells whether gpu::apply_globals_rgba returns an image
render_preview_with_recipe(base, recipe, on_gpu) ==
    LET working == [base EXCEPT !.edits = <<>>]
        r == recipe[1]
        globals == IF recipe # <<>> /\ ~globals_are_identity(r.globals)
                   THEN apply_globals(working, r.globals, on_gpu)
                   ELSE working
        layered == IF recipe # <<>> /\ layers_have_effect(r.layers)
                   THEN apply_layers_in_place(globals, r.layers)
                   ELSE globals
    IN  [bytes |-> encode_png_fast(layered) \o layered.edits,
         ran |-> layered.edits]

\* --------------------------------------------------------- global formula
\* The f32 channel values of the global adjustment are kept in fixed point,
\* FX to the unit (rounded down at each product); a pixel is <<r, g, b, a>>
\* of u8.  The sliders are those of a recipe (units of 0.00001), exposure_ev
\* a whole number of stops.
FX == 10000
SliderUnit == 100000

\* x * y
FxMul(x, y) == (x \div FX) * y + ((x % FX) * y) \div FX

Clamp(x, lo, hi) == IF x < lo THEN lo ELSE IF x > hi THEN hi ELSE x

\* 2f32.powf(exposure_ev)
ExposureMul(ev) ==
    IF ev >= 0 THEN FX * Pow2(ev \div SliderUnit)
    ELSE FX \div Pow2((-ev) \div SliderUnit)

\* slider / 100.0
Percent(slider) == (slider * (FX \div 100)) \div (100 * SliderUnit)

Luma(c) == (2126 * c[1] + 7152 * c[2] + 722 * c[3]) \div 10000

\* the steps both apply_globals_in_place and fs_globals take on the channel
\* values c = <<r, g, b>>, up to the final clamp to 0..1
GlobalsFormula(c, globals) ==
    LET exposure_mul == ExposureMul(globals[1])
        contrast   == Percent(globals[2])
        highlights == Percent(globals[3])
        shadows    == Percent(globals[4])
        whites     == Percent(globals[5])
        blacks     == Percent(globals[6])
        temp       == Percent(globals[7])
        tint       == Percent(globals[8])
        vibrance   == Percent(globals[9])
        saturation == Percent(globals[10])
        e  == [i \in 1..3 |-> FxMul(c[i], exposure_mul)]
        wb == <<FxMul(e[1], FX + temp \div 2 + tint \div 5),
                FxMul(e[2], FX - tint \div 5),
                FxMul(e[3], FX - temp \div 2 + tint \div 5)>>
        l  == Luma(wb)
        highlights_mask == Max(l - FX \div 2, 0) * 2
        shadows_mask    == Max(FX \div 2 - l, 0) * 2
        hs == [i \in 1..3 |->
                  FxMul(FxMul(wb[i], FX + FxMul(highlights, highlights_mask)),
                        FX + FxMul(shadows, shadows_mask))]
        bw == [i \in 1..3 |-> hs[i] + whites \div 10 - blacks \div 10]
        ct == [i \in 1..3 |-> FxMul(bw[i] - FX \div 2, FX + contrast) + FX \div 2]
        l2 == Luma(ct)
        sat_factor == FX + saturation
        vib_mask == Clamp(FX - (Abs(ct[1] - l2) + Abs(ct[2] - l2)
                                + Abs(ct[3] - l2)) \div 3, 0, FX)
        vib_factor == FX + FxMul(vibrance, vib_mask)
    IN  [i \in 1..3 |->
            Clamp(l2 + FxMul(FxMul(ct[i] - l2, sat_factor), vib_factor), 0, FX)]

\* apply_globals_in_place on one pixel: px as f32 / 255.0, the formula,
\* (c * 255.0).round() as u8; alpha goes through unchanged
apply_globals_in_place(px, globals) ==
    LET c == GlobalsFormula([i \in 1..3 |-> (px[i] * FX + 127) \div 255], globals)
    IN  <<(c[1] * 255 + FX \div 2) \div FX, (c[2] * 255 + FX \div 2) \div FX,
          (c[3] * 255 + FX \div 2) \div FX, px[4]>>

\* Rgba8UnormSrgb: what sampling a texel of value v gives (sRGB to linear)
\* and the texel values' thresholds when a linear value is stored
SrgbToLinear ==
    <<0, 3, 6, 9, 12, 15, 18, 21, 24, 27, 30, 33, 37, 40, 44, 48, 52, 56,
      60, 65, 70, 75, 80, 86, 91, 97, 103, 110, 116, 123, 130, 137, 144,
      152, 160, 168, 176, 185, 194, 203, 212, 222, 232, 242, 252, 262, 273,
      284, 296, 307, 319, 331, 343, 356, 369, 382, 395, 409, 423, 437, 452,
      467, 482, 497, 513, 529, 545, 561, 578, 595, 612, 630, 648, 666, 685,
      704, 723, 742, 762, 782, 802, 823, 844, 865, 887, 908, 931, 953, 976,
      999, 1022, 1046, 1070, 1095, 1119, 1144, 1170, 1195, 1221, 1248,
      1274, 1301, 1329, 1356, 1384, 1413, 1441, 1470, 1500, 1529, 1559,
      1590, 1620, 1651, 1683, 1714, 1746, 1779, 1812, 1845, 1878, 1912,
      1946, 1981, 2016, 2051, 2086, 2122, 2159, 2195, 2232, 2270, 2307,
      2346, 2384, 2423, 2462, 2502, 2542, 2582, 2623, 2664, 2705, 2747,
      2789, 2831, 2874, 2918, 2961, 3005, 3050, 3095, 3140, 3185, 3231,
      3278, 3325, 3372, 3419, 3467, 3515, 3564, 3613, 3663, 3712, 3763,
      3813, 3864, 3916, 3968, 4020, 4072, 4125, 4179, 4233, 4287, 4342,
      4397, 4452, 4508, 4564, 4621, 4678, 4735, 4793, 4851, 4910, 4969,
      5029, 5089, 5149, 5210, 5271, 5333, 5395, 5457, 5520, 5583, 5647,
      5711, 5776, 5841, 5906, 5972, 6038, 6105, 6172, 6240, 6308, 6376,
      6445, 6514, 6584, 6654, 6724, 6795, 6867, 6939, 7011, 7084, 7157,
      7231, 7305, 7379, 7454, 7529, 7605, 7682, 7758, 7835, 7913, 7991,
      8070, 8148, 8228, 8308, 8388, 8469, 8550, 8632, 8714, 8796, 8879,
      8963, 9047, 9131, 9216, 9301, 9387, 9473, 9560, 9647, 9734, 9823,
      9911, 10000>>

SrgbThreshold ==
    <<2, 5, 8, 11, 14, 17, 20, 23, 26, 29, 32, 35, 38, 42, 46, 50, 54, 58,
      63, 68, 72, 78, 83, 88, 94, 100, 106, 113, 119, 126, 133, 141, 148,
      156, 164, 172, 181, 189, 198, 208, 217, 227, 237, 247, 257, 268, 279,
      290, 301, 313, 325, 337, 350, 362, 375, 389, 402, 416, 430, 445, 459,
      474, 489, 505, 521, 537, 553, 570, 587, 604, 621, 639, 657, 675, 694,
      713, 732, 752, 772, 792, 812, 833, 854, 876, 897, 919, 942, 964, 987,
      1011, 1034, 1058, 1082, 1107, 1132, 1157, 1183, 1208, 1235, 1261,
      1288, 1315, 1342, 1370, 1398, 1427, 1456, 1485, 1514, 1544, 1574,
      1605, 1636, 1667, 1699, 1730, 1763, 1795, 1828, 1861, 1895, 1929,
      1963, 1998, 2033, 2069, 2104, 2140, 2177, 2214, 2251, 2288, 2326,
      2365, 2403, 2442, 2482, 2522, 2562, 2602, 2643, 2684, 2726, 2768,
      2810, 2853, 2896, 2939, 2983, 3028, 3072, 3117, 3163, 3208, 3255,
      3301, 3348, 3395, 3443, 3491, 3540, 3588, 3638, 3687, 3737, 3788,
      3839, 3890, 3942, 3994, 4046, 4099, 4152, 4206, 4260, 4314, 4369,
      4424, 4480, 4536, 4592, 4649, 4707, 4764, 4822, 4881, 4940, 4999,
      5059, 5119, 5180, 5241, 5302, 5364, 5426, 5489, 5552, 5615, 5679,
      5743, 5808, 5873, 5939, 6005, 6072, 6138, 6206, 6274, 6342, 6410,
      6479, 6549, 6619, 6689, 6760, 6831, 6903, 6975, 7047, 7120, 7194,
      7268, 7342, 7417, 7492, 7567, 7643, 7720, 7797, 7874, 7952, 8030,
      8109, 8188, 8268, 8348, 8428, 8509, 8591, 8673, 8755, 8838, 8921,
      9005, 9089, 9173, 9258, 9344, 9430, 9516, 9603, 9691, 9778, 9867,
      9955>>

LinearToSrgb(x) == Cardinality({v \in 1..255 : SrgbThreshold[v] <= x})

\* fs_globals on one texel of the Rgba8UnormSrgb source, rendered into the
\* Rgba8UnormSrgb target and read back
fs_globals(px, globals) ==
    LET c == GlobalsFormula([i \in 1..3 |-> SrgbToLinear[px[i] + 1]], globals)
    IN  <<LinearToSrgb(c[1]), LinearToSrgb(c[2]), LinearToSrgb(c[3]), px[4]>>

\* ---------------------------------------------------------------- demosaic
\* normalize_sample, the f32 in [0, 1] in fixed point
normalize_sample(val, black, white) ==
    IF white <= black THEN 0
    ELSE Clamp(((val - black) * FX) \div (white - black), 0, FX)

\* raw.cfa.color_at(y, x) of a 2x2 pattern <<c00, c01, c10, c11>>
color_at(cfa, y, x) == cfa[(y % 2) * 2 + (x % 2) + 1]

\* the plane (1 r, 2 g, 3 b) a colour's sample goes to: match color
\* { 0 => r, 1 => g, 2 => b, _ => g }
PlaneOf(color) == IF color = 0 THEN 1 ELSE IF color = 2 THEN 3 ELSE 2

\* get_val: data.get(idx).copied().unwrap_or(0)
get_val(idx, data) == IF idx < Len(data) THEN data[idx + 1] ELSE 0

\* the closure neighbors: the in-bounds cells of the 3x3 block around (x, y),
\* the cell itself among them, as indexes y * w + x
neighbors(x, y, w, h) ==
    {ny * w + nx : nx \in {n \in (x - 1)..(x + 1) : n >= 0 /\ n < w},
                   ny \in {n \in (y - 1)..(y + 1) : n >= 0 /\ n < h}}

RECURSIVE SumAt(_, _)
SumAt(chan, S) ==
    IF S = {} THEN 0
    ELSE LET n == CHOOSE n \in S : TRUE
         IN  chan[n + 1] + SumAt(chan, S \ {n})

\* fill_channel that averages every in-bounds cell of the block, sampled or
\* not
fill_channel_unmasked(chan, mask, w, h) ==
    [i \in 1..(w * h) |->
        LET idx == i - 1
            near == neighbors(idx % w, idx \div w, w, h)
        IN  IF mask[i] THEN chan[i]
            ELSE IF Cardinality(near) > 0
            THEN SumAt(chan, near) \div Cardinality(near)
            ELSE chan[i]]

\* the closure fill_channel: out starts as a copy of chan; every cell that is
\* not sampled gets sum / count over the sampled cells of its block, read
\* from chan
fill_channel(chan, mask, w, h) ==
    [i \in 1..(w * h) |->
        LET idx == i - 1
            near == {n \in neighbors(idx % w, idx \div w, w, h) : mask[n + 1]}
        IN  IF mask[i] THEN chan[i]
            ELSE IF Cardinality(near) > 0
            THEN SumAt(chan, near) \div Cardinality(near)
            ELSE chan[i]]

\* raw_to_rgba for cpp = 1: the three planes and masks from the samples, the
\* planes filled, each pixel clamped and cut to u8; raw is [w, h, cfa, data,
\* black, white] with black and white the per-channel levels
raw_to_rgba(raw) ==
    LET w == raw.w
        h == raw.h
        Color(i) == color_at(raw.cfa, (i - 1) \div w, (i - 1) % w)
        mask == [p \in 1..3 |-> [i \in 1..(w * h) |-> PlaneOf(Color(i)) = p]]
        chan == [p \in 1..3 |-> [i \in 1..(w * h) |->
                    IF mask[p][i]
                    THEN normalize_sample(get_val(i - 1, raw.data),
                                          raw.black[p], raw.white[p])
                    ELSE 0]]
        filled == [p \in 1..3 |-> fill_channel(chan[p], mask[p], w, h)]
    IN  [filled |-> filled,
         rgba |-> [i \in 1..(w * h) |->
                     <<(Clamp(filled[1][i], 0, FX) * 255) \div FX,
                       (Clamp(filled[2][i], 0, FX) * 255) \div FX,
                       (Clamp(filled[3][i], 0, FX) * 255) \div FX, 255>>]]

\* ------------------------------------------------------------ local layers
\* A layer is [enabled, opacity, mask, adjustments]: opacity in fixed point,
\* mask the value of the layer's gradient mask at the pixel (after smoothing
\* and inversion, before opacity), adjustments <<exposure_ev, temp, tint,
\* saturation>> in slider units.
apply_local_layer_in_place(px, layer) ==
    IF ~layer.enabled \/ layer.opacity <= 0 THEN px
    ELSE LET mask == FxMul(layer.mask, layer.opacity)
             adj == layer.adjustments
             exposure_mul == ExposureMul(adj[1])
             temp == Percent(adj[2])
             tint == Percent(adj[3])
             saturation == Percent(adj[4])
             c0 == [i \in 1..3 |-> (px[i] * FX + 127) \div 255]
             e  == [i \in 1..3 |-> FxMul(c0[i], exposure_mul)]
             wb == <<FxMul(e[1], FX + temp \div 2 + tint \div 5),
                     FxMul(e[2], FX - tint \div 5),
                     FxMul(e[3], FX - temp \div 2 + tint \div 5)>>
             l  == Luma(wb)
             c  == [i \in 1..3 |->
                       Clamp(l + FxMul(wb[i] - l, FX + saturation), 0, FX)]
             Mix(i) == ((FxMul(c0[i], FX - mask) + FxMul(c[i], mask)) * 255
                        + FX \div 2) \div FX
         IN  IF mask <= 1 THEN px
             ELSE <<Mix(1), Mix(2), Mix(3), px[4]>>

\* render_preview_with_recipe after scaled_preview, one pixel of the working
\* buffer, step by step: r = [stage, working, next, log]; log keeps the steps
\* taken (0 the global step, i the i-th layer)
RenderBegin(px, recipe) ==
    [stage |-> IF recipe = <<>> THEN "encode" ELSE "globals",
     working |-> px, next |-> 1, log |-> <<>>]

\* if !globals_are_identity { gpu or cpu }, then the test of
\* layers_have_effect
RenderGlobalsStep(r, recipe, on_gpu) ==
    LET g == recipe[1].globals
        working == IF globals_are_identity(g) THEN r.working
                   ELSE IF on_gpu THEN fs_globals(r.working, g)
                   ELSE apply_globals_in_place(r.working, g)
    IN  [r EXCEPT !.working = working,
                  !.log = IF globals_are_identity(g) THEN @ ELSE Append(@, 0),
                  !.stage = IF layers_have_effect(recipe[1].layers)
                            THEN "layers" ELSE "encode"]

\* apply_layers_in_place that walks the layers from the last to the first
RenderLayerStepReversed(r, recipe) ==
    LET layers == recipe[1].layers
        i == Len(layers) + 1 - r.next
    IN  [r EXCEPT !.working = apply_local_layer_in_place(r.working, layers[i]),
                  !.log = Append(@, i),
                  !.next = r.next + 1,
                  !.stage = IF r.next = Len(layers) THEN "encode" ELSE "layers"]

\* apply_layers_in_place: layers.iter().for_each(apply_local_layer_in_place)
RenderLayerStep(r, recipe) ==
    LET layers == recipe[1].layers
        i == r.next
    IN  [r EXCEPT !.working = apply_local_layer_in_place(r.working, layers[i]),
                  !.log = Append(@, i),
                  !.next = r.next + 1,
                  !.stage = IF r.next = Len(layers) THEN "encode" ELSE "layers"]

\* -------------------------------------------------------------- thumbnails
THUMB_DIM == 360

\* placeholder_rgba: the 480x320 gradient, which shows no file
placeholder_rgba == [w |-> 480, h |-> 320, gen |-> 0, of |-> 0]

\* what a load_or_create_thumbnail in progress does next
ThumbPcs == {"lt_exists", "lt_read", "lt_render", "lt_prepare", "lt_create",
             "lt_write"}

\* the command of thread t returns r
ThumbReturn(t, r) ==
    /\ Upd(t, Idle)
    /\ ret' = r
    /\ served' = [bytes |-> IF r.ok /\ th[t].asset \notin DOMAIN served.bytes
                             THEN MapPut(served.bytes, th[t].asset, r.val)
                             ELSE served.bytes,
                  after |-> served.after \ {t}]

ThumbOk(bytes) == [cmd |-> "load_or_create_thumbnail", ok |-> TRUE, val |-> bytes]
ThumbErr(e) == [cmd |-> "load_or_create_thumbnail", ok |-> FALSE, val |-> <<e>>]

\* get_thumbnail: path_for (an unknown id returns "Asset not found"), then
\* load_or_create_thumbnail up to thumbnails_dir()?, whose create_dir_all
\* may fail
GetThumbnailCall(t, asset_id, dir_ok) ==
    /\ th[t].pc = "idle"
    /\ IF asset_id \notin DOMAIN registry
       THEN /\ ret' = [cmd |-> "get_thumbnail", ok |-> FALSE, val |-> <<-1>>]
            /\ UNCHANGED <<th, served>>
       ELSE IF ~dir_ok
       THEN /\ ret' = ThumbErr(-2)
            /\ UNCHANGED <<th, served>>
       ELSE /\ Upd(t, [Idle EXCEPT !.pc = "lt_exists", !.asset = asset_id,
                                   !.path = registry[asset_id]])
            /\ served' = [served EXCEPT !.after =
                              IF asset_id \in DOMAIN served.bytes
                              THEN @ \cup {t} ELSE @ \ {t}]
            /\ UNCHANGED ret
    /\ UNCHANGED <<cache, locks, registry, nextId, decodes, obsv, before,
                   broken, thumbs, gpu, pure>>

\* thumb_path.exists()
ThumbExists(t) ==
    /\ th[t].pc = "lt_exists"
    /\ Upd(t, [th[t] EXCEPT !.pc = IF th[t].asset \in DOMAIN thumbs
                                   THEN "lt_read" ELSE "lt_render"])
    /\ UNCHANGED <<cache, locks, registry, nextId, decodes, obsv, outc,
                   broken, thumbs, gpu, pure>>

\* return fs::read(&thumb_path).map_err(..)
ThumbRead(t, ok) ==
    /\ th[t].pc = "lt_read"
    /\ ThumbReturn(t, IF ok THEN ThumbOk(thumbs[th[t].asset]) ELSE ThumbErr(-3))
    /\ UNCHANGED <<cache, locks, registry, nextId, decodes, obsv, before,
                   broken, thumbs, gpu, pure>>

\* render_resized(path, 360) or, on its error, the placeholder resized
ThumbRender(t) ==
    /\ th[t].pc = "lt_render"
    /\ Upd(t, [th[t] EXCEPT
            !.pc = "lt_prepare",
            !.img = IF load_dynamic_image(BackendsOn(th[t].path, broken)).ok
                    THEN render_resized(
                             [w |-> Source(th[t].path).w,
                              h |-> Source(th[t].path).h,
                              gen |-> 0, of |-> PixelsOf(th[t].path)],
                             THUMB_DIM)
                    ELSE resize_rgba_preserve_aspect(placeholder_rgba, THUMB_DIM)])
    /\ UNCHANGED <<cache, locks, registry, nextId, decodes, obsv, outc,
                   broken, thumbs, gpu, pure>>

\* write_png_to_path: encode_png_fast(img)? and create_dir_all(parent)?
ThumbPrepare(t, ok) ==
    /\ th[t].pc = "lt_prepare"
    /\ IF ok
       THEN /\ Upd(t, [th[t] EXCEPT !.pc = "lt_create"])
            /\ UNCHANGED outc
       ELSE /\ ThumbReturn(t, ThumbErr(-4))
            /\ UNCHANGED before
    /\ UNCHANGED <<cache, locks, registry, nextId, decodes, obsv, broken,
                   thumbs, gpu, pure>>

\* fs::write: File::create makes the file or truncates it
ThumbCreate(t, ok) ==
    /\ th[t].pc = "lt_create"
    /\ IF ok
       THEN /\ thumbs' = MapPut(thumbs, th[t].asset, <<>>)
            /\ Upd(t, [th[t] EXCEPT !.pc = "lt_write"])
            /\ UNCHANGED outc
       ELSE /\ ThumbReturn(t, ThumbErr(-5))
            /\ UNCHANGED <<thumbs, before>>
    /\ UNCHANGED <<cache, locks, registry, nextId, decodes, obsv, broken,
                   gpu, pure>>

\* fs::write: write_all(&buffer), which may fail after a part of the buffer;
\* then Ok(buffer)
ThumbWrite(t, written) ==
    /\ th[t].pc = "lt_write"
    /\ written \in 0..Len(encode_png_fast(th[t].img))
    /\ thumbs' = MapPut(thumbs, th[t].asset,
                        SubSeq(encode_png_fast(th[t].img), 1, written))
    /\ ThumbReturn(t, IF written = Len(encode_png_fast(th[t].img))
                      THEN ThumbOk(encode_png_fast(th[t].img))
                      ELSE ThumbErr(-6))
    /\ UNCHANGED <<cache, locks, registry, nextId, decodes, obsv, before,
                   broken, gpu, pure>>

\* ------------------------------------------------------------------ gpu.rs
\* init_gpu_context: max_dim.min(8192) and the ~150 MP guardrail
GPU_SAFE_DIM == 8192
GPU_SAFE_PIXELS == 150000000

GUpd(t, r) == gth' = [gth EXCEPT ![t] = r]

\* a GPU-backed image step has ended: "gpu" (the GPU's image is used), "cpu"
\* (the GPU function reported None or false, the CPU code ran) or "panic"
\* (the step unwound into the caller)
GDone(r, res) == [r EXCEPT !.pc = "idle", !.res = res]

\* what follows gpu_context() in the function that called it
AfterContext(r, cell) ==
    IF cell = "failed" THEN GDone(r, "cpu")
    ELSE IF r.fn = "available" THEN [r EXCEPT !.pc = "ctx", !.fn = "resize_rgba"]
    ELSE [r EXCEPT !.pc = "limits"]

\* resize_rgba_preserve_aspect past the size test (gpu::available(), then
\* gpu::resize_rgba), or the globals step of render_preview_with_recipe
\* (gpu::apply_globals_rgba)
GpuStepCall(t, fn, img, max_dimension) ==
    /\ gth[t].pc = "idle"
    /\ GUpd(t, [GIdle EXCEPT
            !.pc = "ctx", !.fn = fn, !.src = <<img.w, img.h>>,
            !.dst = IF fn = "available"
                    THEN target_size(img.w, img.h, Max(max_dimension, 1))
                    ELSE <<img.w, img.h>>])
    /\ UNCHANGED <<prog, obsv, outc, broken, thumbs, gpuCell, gpuInit, gpuLimit,
                   inits, pure>>

\* get_or_init that lets every caller who finds the cell empty initialize
GetOrInitRacy(t) ==
    /\ gth[t].pc = "ctx"
    /\ IF gpuCell # "empty"
       THEN /\ GUpd(t, AfterContext(gth[t], gpuCell))
            /\ UNCHANGED <<gpuInit, inits>>
       ELSE /\ gpuInit' = t
            /\ inits' = inits + 1
            /\ GUpd(t, [gth[t] EXCEPT !.pc = "init"])
    /\ UNCHANGED <<prog, obsv, outc, broken, thumbs, gpuCell, gpuLimit, pure>>

\* gpu_context: GPU_CONTEXT.get_or_init; a caller that finds another thread
\* in the initializer waits for it
GetOrInit(t) ==
    /\ gth[t].pc = "ctx"
    /\ IF gpuCell # "empty"
       THEN /\ GUpd(t, AfterContext(gth[t], gpuCell))
            /\ UNCHANGED <<gpuInit, inits>>
       ELSE /\ gpuInit = 0
            /\ gpuInit' = t
            /\ inits' = inits + 1
            /\ GUpd(t, [gth[t] EXCEPT !.pc = "init"])
    /\ UNCHANGED <<prog, obsv, outc, broken, thumbs, gpuCell, gpuLimit, pure>>

\* the initializer without catch_unwind: a panic unwinds through
\* get_or_init, which leaves the cell empty
InitGpuNoCatch(t, outcome, limit) ==
    /\ gth[t].pc = "init"
    /\ gpuInit' = 0
    /\ IF outcome = "panic"
       THEN /\ UNCHANGED <<gpuCell, gpuLimit>>
            /\ GUpd(t, GDone([gth[t] EXCEPT !.panicked = TRUE], "panic"))
       ELSE /\ gpuCell' = IF outcome = "ok" THEN "ready" ELSE "failed"
            /\ gpuLimit' = IF outcome = "ok" THEN limit ELSE gpuLimit
            /\ GUpd(t, AfterContext(gth[t], gpuCell'))
    /\ UNCHANGED <<prog, obsv, outc, broken, thumbs, inits, pure>>

\* the initializer: catch_unwind(init_gpu_context), a panic becoming Err;
\* the cell is set and gpu_context goes on with its value
InitGpu(t, outcome, limit) ==
    /\ gth[t].pc = "init"
    /\ gpuInit' = 0
    /\ gpuCell' = IF outcome = "ok" THEN "ready" ELSE "failed"
    /\ gpuLimit' = IF outcome = "ok" THEN limit ELSE gpuLimit
    /\ GUpd(t, AfterContext([gth[t] EXCEPT !.panicked = (outcome = "panic")],
                            gpuCell'))
    /\ UNCHANGED <<prog, obsv, outc, broken, thumbs, inits, pure>>

\* the guardrails of resize_rgba and apply_globals_rgba
OverLimits(r) ==
    LET max_safe_dim == Min(gpuLimit, GPU_SAFE_DIM)
    IN  \/ r.fn = "resize_rgba" /\ (r.dst[1] = 0 \/ r.dst[2] = 0)
        \/ r.src[1] > max_safe_dim
        \/ r.src[2] > max_safe_dim
        \/ r.fn = "resize_rgba" /\ (r.dst[1] > max_safe_dim \/ r.dst[2] > max_safe_dim)
        \/ r.src[1] * r.src[2] > GPU_SAFE_PIXELS

GpuLimits(t) ==
    /\ gth[t].pc = "limits"
    /\ GUpd(t, IF OverLimits(gth[t]) THEN GDone(gth[t], "cpu")
               ELSE [gth[t] EXCEPT !.pc = "run"])
    /\ UNCHANGED <<prog, obsv, outc, broken, thumbs, gpuCell, gpuInit, gpuLimit,
                   inits, pure>>

\* textures, bind group, render pass, copy to the output buffer and
\* queue.submit: the call's command buffer is with the device. Nothing is
\* locked: device and queue are shared through the Arc of the context
GpuSubmit(t) ==
    /\ gth[t].pc = "run"
    /\ GUpd(t, [gth[t] EXCEPT !.pc = "wait"])
    /\ UNCHANGED <<prog, obsv, outc, broken, thumbs, gpuCell, gpuInit, gpuLimit,
                   inits, pure>>

\* map_async, device.poll(Wait), the readback; the result of the
\* mapping is dropped (let _ =) and get_mapped_range panics on a buffer
\* that is not mapped
GpuRun(t, mapped) ==
    /\ gth[t].pc = "wait"
    /\ GUpd(t, GDone(gth[t], IF mapped THEN "gpu" ELSE "panic"))
    /\ UNCHANGED <<prog, obsv, outc, broken, thumbs, gpuCell, gpuInit, gpuLimit,
                   inits, pure>>

\* ------------------------------------------------------------------ specs
Issued == {IdOf(i) : i \in 1..nextId}

\* the steps of a call in progress; `observed` names the observer variables
\* ("uses", "run") that record the requests (in single-threaded use only)
Step(t, observed) ==
    \/ MasterGet(t)
    \/ Decode(t, observed)
    \/ StoreInsert(t)
    \/ StoreDropVariants(t)
    \/ TouchLock(t)
    \/ Touch(t)
    \/ EvictLock(t)
    \/ EvictPop(t)
    \/ EvictMaster(t)
    \/ EvictVariants(t)
    \/ VariantGet(t)
    \/ VariantInsert(t)
    \/ Encode(t, observed)
    \/ ClearMasters(t)
    \/ ClearVariants(t)
    \/ ClearLock(t)
    \/ ClearLru(t)
    \/ RegisterAssets(t)

\* commands run on any worker thread, at any time
ConcDims == {<<800>>, <<2000>>}
ConcFolders == {{}, {"land.jpg", "port.jpg", "small.png"}}

Next ==
    \E t \in Threads :
        \/ \E a \in Issued, d \in ConcDims : RenderPreviewCall(t, a, d, {})
        \/ \E f \in ConcFolders : OpenFolderCall(t, TRUE, f)
        \/ OpenFolderCall(t, FALSE, {})
        \/ Step(t, {})

Spec == Init /\ [][Next]_vars

\* the same, every preview requested at one dimension
LockDims == {<<800>>}

NextLocks ==
    \E t \in Threads :
        \/ \E a \in Issued, d \in LockDims : RenderPreviewCall(t, a, d, {})
        \/ \E f \in ConcFolders : OpenFolderCall(t, TRUE, f)
        \/ OpenFolderCall(t, FALSE, {})
        \/ Step(t, {})

SpecLocks == Init /\ [][NextLocks]_vars

\* no command is in progress on any thread
Quiescent == \A t \in Threads : th[t].pc = "idle"

\* preview requests only: folders are opened while nothing else runs and
\* before any asset is registered, so no request overlaps a cache clear
NextRequests ==
    \E t \in Threads :
        \/ \E a \in Issued, d \in ConcDims : RenderPreviewCall(t, a, d, {})
        \/ \E f \in ConcFolders :
              nextId = 0 /\ Quiescent /\ OpenFolderCall(t, TRUE, f)
        \/ nextId = 0 /\ Quiescent /\ OpenFolderCall(t, FALSE, {})
        \/ Step(t, {})

SpecRequests == Init /\ [][NextRequests]_vars

\* single-threaded use: one command at a time, the recency of the requests
\* observed
SeqDims == {<<>>, <<800>>, <<2000>>, <<5000>>}
SeqFolders == {{}, {"bad.dng"}, {"land.jpg", "port.jpg", "small.png"}}

NextSeq ==
    \/ \E a \in Issued, d \in SeqDims : RenderPreviewCall(1, a, d, {"uses"})
    \/ \E f \in SeqFolders : OpenFolderCall(1, TRUE, f)
    \/ OpenFolderCall(1, FALSE, {})
    \/ Step(1, {"uses"})

SpecSeq == Init /\ [][NextSeq]_vars

\* single-threaded use, the runs of requests for one asset observed
RunDims == {<<>>, <<800>>, <<2000>>}

NextRun ==
    \/ \E a \in Issued, d \in RunDims : RenderPreviewCall(1, a, d, {"run"})
    \/ \E f \in SeqFolders : OpenFolderCall(1, TRUE, f)
    \/ OpenFolderCall(1, FALSE, {})
    \/ Step(1, {"run"})

SpecRun == Init /\ [][NextRun]_vars

\* the GPU-backed image steps of concurrent requests
GpuImages == {[w |-> 4000, h |-> 3000], [w |-> 9000, h |-> 6000]}
GpuDims == {360, 1920}
InitOutcomes == {"ok", "no_adapter", "no_device", "panic"}
DeviceLimits == {2048, 16384}

GpuStep(t) ==
    \/ GetOrInit(t)
    \/ \E o \in InitOutcomes, l \in DeviceLimits : InitGpu(t, o, l)
    \/ GpuLimits(t)
    \/ GpuSubmit(t)
    \/ \E mapped \in BOOLEAN : GpuRun(t, mapped)

NextGpu ==
    \E t \in Threads :
        \/ \E img \in GpuImages, d \in GpuDims : GpuStepCall(t, "available", img, d)
        \/ \E img \in GpuImages : GpuStepCall(t, "apply_globals_rgba", img, 0)
        \/ GpuStep(t)

SpecGpu == Init /\ [][NextGpu]_vars

\* single-threaded use at dimensions below and in the band and on both sides
\* of a master's max_dim - 4, what each preview returns observed
NearDims == {<<100>>, <<480>>, <<1915>>, <<1917>>, <<3200>>}
NearFolders == {{}, {"land.jpg", "port.jpg", "small.png"}}

NextNear ==
    \/ \E a \in Issued, d \in NearDims : RenderPreviewCall(1, a, d, {"ret"})
    \/ \E f \in NearFolders : OpenFolderCall(1, TRUE, f)
    \/ Step(1, {"ret"})

SpecNear == Init /\ [][NextNear]_vars

\* a listed file is overwritten with bytes that no backend decodes
BreakFile(path) ==
    /\ path \in {registry[a] : a \in DOMAIN registry} \ broken
    /\ broken' = broken \cup {path}
    /\ UNCHANGED <<prog, obsv, outc, thumbs, gpu, pure>>

\* single-threaded use while files change on disk, what each preview returns
\* observed
FailDims == {<<800>>, <<3200>>}

NextFail ==
    \/ \E a \in Issued, d \in FailDims : RenderPreviewCall(1, a, d, {"ret"})
    \/ \E f \in SeqFolders : OpenFolderCall(1, TRUE, f)
    \/ \E p \in Files : BreakFile(p)
    \/ Step(1, {"ret"})

SpecFail == Init /\ [][NextFail]_vars

\* thumbnails requested on any worker thread once a folder has been opened
ThumbFolders == {{"bad.dng", "land.jpg"}}

FolderStep(t) ==
    \/ ClearMasters(t)
    \/ ClearVariants(t)
    \/ ClearLock(t)
    \/ ClearLru(t)
    \/ RegisterAssets(t)

ThumbStep(t) ==
    \/ ThumbExists(t)
    \/ \E ok \in BOOLEAN : ThumbRead(t, ok)
    \/ ThumbRender(t)
    \/ \E ok \in BOOLEAN : ThumbPrepare(t, ok)
    \/ \E ok \in BOOLEAN : ThumbCreate(t, ok)
    \/ \E written \in 0..Len(encode_png_fast(placeholder_rgba)) :
              ThumbWrite(t, written)

NextThumb ==
    \E t \in Threads :
        \/ \E f \in ThumbFolders :
              nextId = 0 /\ Quiescent /\ OpenFolderCall(t, TRUE, f)
        \/ FolderStep(t)
        \/ \E a \in Issued, dir_ok \in BOOLEAN : GetThumbnailCall(t, a, dir_ok)
        \/ ThumbStep(t)

SpecThumb == Init /\ [][NextThumb]_vars

\* a source file that did not decode is put back as it was
RepairFile(path) ==
    /\ path \in broken
    /\ broken' = broken \ {path}
    /\ UNCHANGED <<prog, obsv, outc, thumbs, gpu, pure>>

\* thumbnails requested on any worker thread while source files are
\* overwritten and put back
StaleFiles == {"land.jpg"}

NextStale ==
    \/ \E p \in StaleFiles : BreakFile(p)
    \/ \E p \in StaleFiles : RepairFile(p)
    \/ \E t \in Threads :
        \/ \E f \in ThumbFolders :
              nextId = 0 /\ Quiescent /\ OpenFolderCall(t, TRUE, f)
        \/ FolderStep(t)
        \/ \E a \in Issued, dir_ok \in BOOLEAN : GetThumbnailCall(t, a, dir_ok)
        \/ ThumbStep(t)

SpecStale == Init /\ [][NextStale]_vars

\* render_preview_with_recipe applied to a scaled preview and a recipe
SliderValues == {-20, 0, 5}
Layers == [enabled : BOOLEAN, opacity : {0, 50}]
LayerLists == {<<>>} \cup {<<l>> : l \in Layers}
Recipes == [globals : [1..10 -> SliderValues], layers : LayerLists]
Bases == {[w |-> 800, h |-> 600, gen |-> 1, of |-> 2, edits |-> <<>>]}

RenderWithRecipe ==
    /\ output' = <<render_preview_with_recipe(input.base, input.recipe,
                                              input.on_gpu)>>
    /\ UNCHANGED <<prog, obsv, outc, broken, thumbs, gpu, input>>

InitRecipe ==
    /\ ProgInit /\ ObsInit /\ output = <<>>
    /\ input \in [base : Bases,
                  recipe : {<<>>} \cup {<<r>> : r \in Recipes},
                  on_gpu : BOOLEAN]

SpecRecipe == InitRecipe /\ [][RenderWithRecipe]_vars

\* the resize of a w x h source to a requested dimension, by
\* resize_rgba_preserve_aspect on the image and by render_resized on the file
Sides == (0..12) \cup {100, 333, 479, 480, 481, 600, 1919, 1920, 3000, 3200,
                       3201, 4000, 6000, 9999, 16188, 17035}
ResizeDims == {480, 481, 500, 777, 1440, 1920, 2047, 2152, 3199, 3200}

SizeOf(img) == <<img.w, img.h>>

Resize ==
    LET img == [w |-> input.w, h |-> input.h, gen |-> 1, of |-> 1]
    IN  /\ output' = <<[direct |-> SizeOf(resize_rgba_preserve_aspect(img, input.d)),
                        decoded |-> SizeOf(render_resized(img, input.d))]>>
        /\ UNCHANGED <<prog, obsv, outc, broken, thumbs, gpu, input>>

InitResize ==
    /\ ProgInit /\ ObsInit /\ output = <<>>
    /\ input \in [w : Sides, h : Sides, d : ResizeDims]

SpecResize == InitResize /\ [][Resize]_vars

\* load_dynamic_image applied to a file of any behaviour
LoadDynamicImage ==
    /\ output' = <<load_dynamic_image(input)>>
    /\ UNCHANGED <<prog, obsv, outc, broken, thumbs, gpu, input>>

InitDecode == ProgInit /\ ObsInit /\ input \in Outcomes /\ output = <<>>

SpecDecode == InitDecode /\ [][LoadDynamicImage]_vars

\* normalize_dimension applied to a dimension, and again to what it returned
RequestedDims == (0..4000) \cup {65535, 16777216, 2147483647}

Normalize ==
    /\ output = <<>>
    /\ output' = <<normalize_dimension(input)>>
    /\ UNCHANGED <<prog, obsv, outc, broken, thumbs, gpu, input>>

NormalizeAgain ==
    /\ Len(output) = 1
    /\ output' = Append(output, normalize_dimension(output[1]))
    /\ UNCHANGED <<prog, obsv, outc, broken, thumbs, gpu, input>>

InitClamp == ProgInit /\ ObsInit /\ input \in RequestedDims /\ output = <<>>

NextClamp == Normalize \/ NormalizeAgain

SpecClamp == InitClamp /\ [][NextClamp]_vars

\* the global adjustment of one pixel on the CPU and on the GPU
Channels == {0, 51, 128, 255}
PixelValues == {<<r, g, b, 255>> : r \in Channels, g \in Channels, b \in Channels}
OneSlider(i, v) == [k \in 1..10 |-> IF k = i THEN v ELSE 0]
GlobalRecipes ==
    {OneSlider(1, 100000), OneSlider(1, -100000)}
        \cup {OneSlider(i, 5000000) : i \in 2..10}
        \cup {OneSlider(i, -5000000) : i \in 2..10}

ApplyGlobals ==
    /\ output = <<>>
    /\ output' = <<[cpu |-> apply_globals_in_place(input.px, input.globals),
                    gpu |-> fs_globals(input.px, input.globals)]>>
    /\ UNCHANGED <<prog, obsv, outc, broken, thumbs, gpu, input>>

InitGlobals ==
    /\ ProgInit /\ ObsInit /\ output = <<>>
    /\ input \in [px : PixelValues, globals : GlobalRecipes]

SpecGlobals == InitGlobals /\ [][ApplyGlobals]_vars

\* drop_variants_for on variant maps of asset ids given by the caller
\* (scaled_preview and master_preview take any &str as asset id)
PurgeIds == {<<"a">>, <<"b">>, <<"a", "b">>, <<"a", ":", "b">>}
PurgeDims == {480, 800}
PurgeKeys == {cache_key(id, d) : id \in PurgeIds, d \in PurgeDims}

DropVariants ==
    /\ output = <<>>
    /\ output' = <<drop_variants_for(input.vs, input.asset_id)>>
    /\ UNCHANGED <<prog, obsv, outc, broken, thumbs, gpu, input>>

InitPurge ==
    /\ ProgInit /\ ObsInit /\ output = <<>>
    /\ \E keys \in SUBSET PurgeKeys, id \in PurgeIds :
           input = [vs |-> [k \in keys |-> Len(k)], asset_id |-> id]

SpecPurge == InitPurge /\ [][DropVariants]_vars

\* raw_to_rgba on small sensors
SensorSizes == {<<1, 1>>, <<2, 2>>, <<3, 3>>, <<4, 2>>}
CfaPatterns == {<<0, 1, 1, 2>>, <<1, 0, 2, 1>>, <<0, 0, 0, 0>>, <<3, 0, 2, 1>>}
SampleLevels == {0, 1000}
RawImages ==
    UNION {[w : {sz[1]}, h : {sz[2]}, cfa : CfaPatterns,
            data : [1..(sz[1] * sz[2]) -> SampleLevels],
            black : {<<0, 0, 0>>}, white : {<<1000, 1000, 500>>}] :
           sz \in SensorSizes}

Demosaic ==
    /\ output = <<>>
    /\ output' = <<raw_to_rgba(input)>>
    /\ UNCHANGED <<prog, obsv, outc, broken, thumbs, gpu, input>>

InitDemosaic == ProgInit /\ ObsInit /\ input \in RawImages /\ output = <<>>

SpecDemosaic == InitDemosaic /\ [][Demosaic]_vars

\* one render of a pixel with a recipe of up to three layers
LayerKinds ==
    {[enabled |-> TRUE, opacity |-> FX, mask |-> FX,
      adjustments |-> <<100000, 0, 0, 0>>],
     [enabled |-> TRUE, opacity |-> FX, mask |-> FX,
      adjustments |-> <<-100000, 0, 0, 0>>],
     [enabled |-> FALSE, opacity |-> FX, mask |-> FX,
      adjustments |-> <<100000, 0, 0, 0>>],
     [enabled |-> TRUE, opacity |-> 0, mask |-> FX,
      adjustments |-> <<100000, 0, 0, 0>>],
     [enabled |-> TRUE, opacity |-> FX \div 2, mask |-> FX,
      adjustments |-> <<0, 5000000, 0, -5000000>>]}
LayerStacks ==
    {<<>>} \cup {<<a>> : a \in LayerKinds}
           \cup {<<a, b>> : a \in LayerKinds, b \in LayerKinds}
           \cup {<<a, b, c>> : a \in LayerKinds, b \in LayerKinds, c \in LayerKinds}
RenderGlobals ==
    {OneSlider(1, 0), OneSlider(1, 100000), OneSlider(2, 5000000)}
RenderPixels == {<<200, 100, 50, 255>>, <<20, 128, 240, 128>>}

RenderStart ==
    /\ output = <<>>
    /\ output' = <<RenderBegin(input.px, input.recipe)>>
    /\ UNCHANGED <<prog, obsv, outc, broken, thumbs, gpu, input>>

RenderGlobalsAct ==
    /\ output # <<>> /\ output[1].stage = "globals"
    /\ output' = <<RenderGlobalsStep(output[1], input.recipe, input.on_gpu)>>
    /\ UNCHANGED <<prog, obsv, outc, broken, thumbs, gpu, input>>

RenderLayerAct ==
    /\ output # <<>> /\ output[1].stage = "layers"
    /\ output' = <<RenderLayerStep(output[1], input.recipe)>>
    /\ UNCHANGED <<prog, obsv, outc, broken, thumbs, gpu, input>>

RenderEncode ==
    /\ output # <<>> /\ output[1].stage = "encode"
    /\ output' = <<[output[1] EXCEPT !.stage = "done"]>>
    /\ UNCHANGED <<prog, obsv, outc, broken, thumbs, gpu, input>>

InitRender ==
    /\ ProgInit /\ ObsInit /\ output = <<>>
    /\ input \in [px : RenderPixels,
                  recipe : {<<>>} \cup {<<[globals |-> g, layers |-> l]>> :
                                          g \in RenderGlobals, l \in LayerStacks},
                  on_gpu : BOOLEAN]

NextRender == RenderStart \/ RenderGlobalsAct \/ RenderLayerAct \/ RenderEncode

SpecRender == InitRender /\ [][NextRender]_vars

\* ------------------------------------------------------------- properties
\* the asset id a variant key was built from: the text before its last ':'
RECURSIVE LastColon(_)
LastColon(k) ==
    IF k = <<>> THEN 0
    ELSE IF k[Len(k)] = ":" THEN Len(k)
    ELSE LastColon(SubSeq(k, 1, Len(k) - 1))

AssetOfKey(k) == SubSeq(k, 1, LastColon(k) - 1)

\* the asset ids that have a cached variant
Owners == {AssetOfKey(k) : k \in DOMAIN variants}

Range(q) == {q[i] : i \in 1..Len(q)}

\* thread t has just come back from master_preview by way of store_master
Stored(t) == th[t].site = "store" /\ th[t].pc \in {"sp_get", "encode"}

\* C1: in single-threaded use, between commands, the residency order is the
\* (at most) two most recently requested distinct assets, oldest first; they
\* are exactly the assets that have a master, and only they have variants. So
\* a request that makes a third asset resident evicts the least recently
\* requested one, master and variants: A,B,C evicts A; A,B,A,C evicts B.
C1_LruEvictsLeastRecent ==
    th[1].pc = "idle" =>
        /\ lru = LastN(uses, PREVIEW_CACHE_ASSETS)
        /\ DOMAIN masters = Range(lru)
        /\ Owners \subseteq DOMAIN masters

\* C1 witness: after requests A, B, A, C the second asset is the one evicted
C1_Witness ==
    /\ th[1].pc = "idle"
    /\ uses = <<IdOf(2), IdOf(1), IdOf(3)>>
    /\ DOMAIN masters = {IdOf(1), IdOf(3)}
    /\ lru = <<IdOf(1), IdOf(3)>>

\* C2: whenever no call is in progress the master map holds at most
\* PREVIEW_CACHE_ASSETS entries, cache clears running concurrently included.
C2_MasterBoundAtQuiescence ==
    Quiescent => Cardinality(DOMAIN masters) <= PREVIEW_CACHE_ASSETS

\* C3: under concurrent preview requests, once every request has finished no
\* variant is cached for an asset that has no master.
C3_NoVariantOutlivesMaster ==
    Quiescent => Owners \subseteq DOMAIN masters

\* C4: under concurrent preview requests for one asset, once every request
\* has finished each cached variant of an asset that has a master was made
\* from that very master (the decode the master map now holds).
C4_VariantsFromCurrentMaster ==
    Quiescent =>
        \A k \in DOMAIN variants :
            AssetOfKey(k) \in DOMAIN masters =>
                variants[k].gen = masters[AssetOfKey(k)].buf.gen

\* C5: when master_preview returns after a miss whose decode succeeded, the
\* master map holds the newly decoded master for the asset (the latest
\* decode, the one returned) and the variant map holds no key of the asset.
C5_MissStoresMasterAndPurges ==
    Stored(1) =>
        /\ th[1].asset \in DOMAIN masters
        /\ masters[th[1].asset] = th[1].master
        /\ masters[th[1].asset].buf.gen = decodes
        /\ th[1].asset \notin Owners

\* C5 witness: a resident asset, requested earlier at a smaller dimension,
\* has had its master replaced by a decode at 2000
C5_Witness ==
    /\ Stored(1)
    /\ th[1].target = 2000
    /\ th[1].master.max_dim = 2000
    /\ th[1].asset \in Range(LastN(uses, PREVIEW_CACHE_ASSETS))
    /\ decodes >= 2

\* C6: single-threaded, three consecutive requests for one asset at 800,
\* 2000 and 800, the first of which decodes, decode the source exactly
\* twice: the second request decodes again and the third does not.
C6_TwoDecodes ==
    (/\ Len(run.reqs) = 3
     /\ run.reqs[1].dim = 800 /\ run.reqs[2].dim = 2000 /\ run.reqs[3].dim = 800
     /\ run.reqs[1].dec = 1)
    => (run.reqs[2].dec = 1 /\ run.reqs[3].dec = 0)

\* C7: when master_preview returns after a miss whose decode succeeded, the
\* stored master's max_dim is the decode envelope
\* min(max(clamp(d), 1920), 3200), hence covers the dimension just requested.
C7_StoredMaxDimIsEnvelope ==
    Stored(1) =>
        /\ masters[th[1].asset].max_dim =
               Min(Max(th[1].target, PREVIEW_MASTER_BASE), PREVIEW_MAX_DIM)
        /\ th[1].target <= masters[th[1].asset].max_dim

\* C8: master_preview called while a master with max_dim >= clamp(d) is
\* cached takes the hit path and returns that master; no step of the path
\* decodes or changes the master map or the variant map, and its touch moves
\* the asset id to the most-recent end of the residency order, the other ids
\* keeping their order.
C8_MasterHitFrame ==
    [][ /\ (/\ th[1].pc = "mp_get"
            /\ th[1].asset \in DOMAIN masters
            /\ th[1].target <= masters[th[1].asset].max_dim)
           => /\ th'[1].pc = "touch_lock"
              /\ th'[1].site = "mp_hit"
              /\ th'[1].master = masters[th[1].asset]
              /\ UNCHANGED <<masters, variants, lru, decodes>>
        /\ (th[1].site = "mp_hit" /\ th[1].pc = "touch_lock")
           => UNCHANGED <<masters, variants, lru, decodes>>
        /\ (th[1].site = "mp_hit" /\ th[1].pc = "touch")
           => /\ UNCHANGED <<masters, variants, decodes>>
              /\ lru' = Recency(lru, th[1].asset)
              /\ th'[1].master = masters[th[1].asset]
    ]_vars

\* C8 witness: a hit on the less recently used of two resident assets has
\* moved it behind the other
C8_Witness ==
    /\ th[1].site = "mp_hit"
    /\ th[1].pc \in {"sp_get", "encode"}
    /\ Len(uses) = 2
    /\ uses[1] = th[1].asset
    /\ lru = <<uses[2], uses[1]>>

\* C9: once open_folder has returned and every in-flight preview request has
\* finished, every asset id with a master, a variant or a place in the
\* residency order belongs to the folder now registered.
C9_NoOldFolderEntries ==
    Quiescent =>
        (DOMAIN masters \cup Owners \cup Range(lru)) \subseteq DOMAIN registry

\* thread t can take its next step. The decode and the variant lookup wait
\* for nothing (Decode and VariantGet have no guard but the position).
CanStep(t) == th[t].pc \in {"decode", "sp_get"} \/ ENABLED Step(t, {})

\* C10: no interleaving of preview requests and cache clears deadlocks:
\* while some command is in progress, some command in progress can take its
\* next step.
C10_NoDeadlock ==
    (\E t \in Threads : th[t].pc # "idle") =>
        (\E t \in Threads : th[t].pc # "idle" /\ CanStep(t))

\* C10 witness: a request holding its master-map read guard waits for the
\* residency lock while a cache clear holds that lock
C10_Witness ==
    \E t, u \in Threads :
        /\ t # u
        /\ t \in mguard
        /\ th[t].pc = "touch_lock"
        /\ lruOwner = u
        /\ th[u].pc = "clr_lru"
        /\ ~ENABLED Step(t, {})

\* C11: init_gpu_context is entered at most once, whatever the interleaving
\* of concurrent first calls; once the cell holds a value neither the value
\* nor the number of initializations changes, and with Failed in the cell no
\* thread is inside or past the initializer and every GPU-backed step that
\* ends has used the CPU.
C11_InitOnce ==
    /\ [](/\ inits <= 1
          /\ (gpuCell # "empty" => inits = 1 /\ gpuInit = 0)
          /\ (gpuCell = "failed" =>
                \A t \in Threads : /\ gth[t].pc \in {"idle", "ctx"}
                                   /\ gth[t].res \in {"none", "cpu"}))
    /\ [][ /\ gpuCell # "empty" => (gpuCell' = gpuCell /\ inits' = inits)
           /\ \A t \in Threads :
                (gpuCell = "failed" /\ gth[t].pc # "idle" /\ gth'[t].pc = "idle")
                    => gth'[t].res = "cpu"
       ]_vars

\* C11 witness: two concurrent first calls through different entry points,
\* one inside the initializer, the other waiting in get_or_init
C11_Witness ==
    \E t, u \in Threads :
        /\ gth[t].pc = "init" /\ gth[t].fn = "available"
        /\ gth[u].pc = "ctx" /\ gth[u].fn = "apply_globals_rgba"
        /\ gpuCell = "empty" /\ inits = 1

\* C12: a thread whose GPU initialization panicked has left Failed in the
\* cell and its image step has ended on the CPU path, not in a panic.
C12_InitPanicCaught ==
    \A t \in Threads :
        gth[t].panicked =>
            gpuCell = "failed" /\ gth[t].pc = "idle" /\ gth[t].res = "cpu"

\* C12 witness: the initializer has panicked under a resize
C12_Witness ==
    \E t \in Threads :
        gth[t].panicked /\ gth[t].fn = "available" /\ gth[t].res = "cpu"

\* C13: no GPU-backed image step ends in a panic: every GPU failure makes
\* the GPU function report unavailable and the step end on the CPU path.
C13_GpuFailuresFallBack ==
    \A t \in Threads : gth[t].res # "panic"

\* the decoder's backends in the order of the documentation, and whether a
\* backend makes an image of a file
BackendOrder == <<"open", "memory", "libraw16", "libraw8", "rawloader", "dummy">>

Succeeds(b, f) ==
    CASE b = "open" -> f.open
      [] b = "memory" -> f.read /\ f.mem
      [] b = "libraw16" -> f.read /\ f.lr16 /\ f.conv16
      [] b = "libraw8" -> f.read /\ f.lr8 /\ f.conv8
      [] b = "rawloader" -> f.rawl
      [] b = "dummy" -> f.read /\ f.dummy

\* C14: the backends attempted are an initial part of the fixed order; a
\* returned image is that of the last backend attempted, which succeeds on
\* the file while every backend before it fails; and an error is returned
\* only after all six backends have been attempted.
C14_BackendOrder ==
    output # <<>> =>
        LET r == output[1]
            n == Len(r.tried)
        IN  /\ n >= 1 /\ n <= Len(BackendOrder)
            /\ r.tried = SubSeq(BackendOrder, 1, n)
            /\ \A i \in 1..(n - 1) : ~Succeeds(r.tried[i], input)
            /\ r.ok => (r.by = r.tried[n] /\ Succeeds(r.by, input))
            /\ ~r.ok => (n = Len(BackendOrder) /\ ~Succeeds(r.tried[n], input))

\* C15: when every backend fails on the file, the one error returned holds
\* the failure reason of each backend: the codec open, the in-memory
\* sniffing, LibRaw 16-bit and 8-bit, rawloader and the dummy decode.
C15_AllReasonsInError ==
    (/\ output # <<>>
     /\ ~input.open /\ input.read /\ ~input.mem /\ ~input.lr16 /\ ~input.lr8
     /\ ~input.rawl /\ ~input.dummy)
    => /\ ~output[1].ok
       /\ {"open_err", "mem_err", "err16", "err8", "raw_err", "dummy_err"}
              \subseteq Range(output[1].msg)

\* C16: every load_or_create_thumbnail that has returned, returned Ok with
\* image bytes.
C16_ThumbnailNeverFails ==
    ret.cmd = "load_or_create_thumbnail" => ret.ok /\ ret.val # <<>>

\* C17: a call that finds the cache file returns its bytes and neither
\* decodes nor writes; a call that finds none and returns bytes leaves the
\* file holding exactly those bytes; and a call that began after a thumbnail
\* of the asset was returned returns that thumbnail's bytes.
C17_ThumbnailCacheStable ==
    [][\A t \in Threads :
          (th[t].pc \in ThumbPcs /\ th'[t].pc = "idle" /\ ret'.ok) =>
              /\ th[t].pc = "lt_read" =>
                     ret'.val = thumbs[th[t].asset] /\ thumbs' = thumbs
              /\ th[t].pc # "lt_read" => thumbs'[th[t].asset] = ret'.val
              /\ t \in served.after => ret'.val = served.bytes[th[t].asset]]_vars

\* C18: a preview request whose decode fails on every backend returns the
\* decoder's error, not an image, and leaves the master map, the variant map
\* and the residency order as they were when it was called.
C18_FailedPreviewLeavesCaches ==
    [][(th[1].pc = "decode" /\ th'[1].pc = "idle") =>
          /\ ~ret'.ok
          /\ ret'.val = load_dynamic_image(BackendsOn(th[1].path, broken)).msg
          /\ load_dynamic_image(BackendsOn(th[1].path, broken)).tried = BackendOrder
          /\ <<masters', variants', lru'>> = before]_vars

\* a request for 3200 has failed on a file overwritten after its master was
\* decoded at 1920, and that master is still cached
C18_Witness ==
    /\ ret.cmd = "render_preview_with_recipe" /\ ~ret.ok
    /\ th[1].pc = "idle"
    /\ \E a \in DOMAIN masters \cap DOMAIN registry :
          /\ registry[a] \in broken
          /\ masters[a].max_dim < PREVIEW_MAX_DIM
          /\ a \in Range(lru)
    /\ <<masters, variants, lru>> = before

\* the recipe whose ten global sliders are 0 and whose layer list is empty
ZeroRecipe(recipe) ==
    /\ recipe # <<>>
    /\ \A i \in 1..10 : recipe[1].globals[i] = 0
    /\ recipe[1].layers = <<>>

\* C19: a preview rendered with a recipe whose ten global sliders are all 0
\* and whose layer list is empty has the bytes of the preview rendered with
\* no recipe, and neither the global step nor a layer step has run.
C19_ZeroRecipeIsNoRecipe ==
    (output # <<>> /\ ZeroRecipe(input.recipe)) =>
        /\ output[1].ran = <<>>
        /\ output[1].bytes =
               render_preview_with_recipe(input.base, <<>>, input.on_gpu).bytes
        /\ output[1].bytes = encode_png_fast(input.base)

\* the zero recipe has been rendered where the GPU would have taken the
\* global step
C19_Witness ==
    output # <<>> /\ ZeroRecipe(input.recipe) /\ input.on_gpu

\* an output size for a w x h source and a dimension d: the larger side is d,
\* the smaller side is at least 1 and within one pixel of d * min / max; a
\* source with a zero-sized side gives 1 x 1
FitsBox(size, w, h, d) ==
    IF w = 0 \/ h = 0 THEN size = <<1, 1>>
    ELSE /\ Max(size[1], size[2]) = d
         /\ Min(size[1], size[2]) >= 1
         /\ Abs(Min(size[1], size[2]) * Max(w, h) - d * Min(w, h)) <= Max(w, h)

\* C20: for every source w x h and every dimension d in 480..3200,
\* the output of the resize, of the image and of the decoded file alike, has
\* its larger side exactly d, its smaller side within one pixel of
\* d * min(w,h) / max(w,h) and at least 1, and is 1 x 1 for a source with a
\* zero-sized side.
C20_ResizeFitsBox ==
    output # <<>> =>
        /\ FitsBox(output[1].direct, input.w, input.h, input.d)
        /\ FitsBox(output[1].decoded, input.w, input.h, input.d)

\* C21: normalize_dimension maps every dimension into 480..3200, and applied
\* to its own result it returns that result.
C21_ClampIdempotent ==
    /\ Len(output) >= 1 =>
           output[1] >= PREVIEW_MIN_DIM /\ output[1] <= PREVIEW_MAX_DIM
    /\ Len(output) = 2 => output[2] = output[1]

\* a dimension below the band has been clamped twice
C21_Witness ==
    input < PREVIEW_MIN_DIM /\ Len(output) = 2 /\ output[1] = PREVIEW_MIN_DIM

\* C22: for the same pixel and the same non-identity global recipe, the GPU
\* output and the CPU output differ by at most 2 (of 255) in every channel.
C22_GpuMatchesCpu ==
    (output # <<>> /\ ~globals_are_identity(input.globals)) =>
        \A i \in 1..4 : Abs(output[1].gpu[i] - output[1].cpu[i]) <= 2

\* the dimension a variant key ends in
RECURSIVE ParseU32(_)
ParseU32(digits) ==
    IF digits = <<>> THEN 0
    ELSE 10 * ParseU32(SubSeq(digits, 1, Len(digits) - 1))
         + (CHOOSE n \in 0..9 : Digits[n + 1] = digits[Len(digits)])

DimOfKey(k) == ParseU32(SubSeq(k, LastColon(k) + 1, Len(k)))

\* C23: a request whose clamped dimension is at least its master's max_dim - 4
\* returns the master buffer and adds no variant entry; and whenever no
\* request runs, every variant's key dimension is below its asset's master's
\* max_dim - 4 and the variant is no larger than that master.
C23_NearMasterReturnsMaster ==
    /\ [][(th[1].pc = "encode" /\ th'[1].pc = "idle"
           /\ th[1].target >= th[1].master.max_dim - NEAR_MASTER) =>
              /\ th[1].img = th[1].master.buf
              /\ ret'.val = encode_png_fast(th[1].master.buf)
              /\ DOMAIN variants' \subseteq DOMAIN before[2]]_vars
    /\ [](th[1].pc = "idle" =>
             \A k \in DOMAIN variants :
                 /\ AssetOfKey(k) \in DOMAIN masters
                 /\ DimOfKey(k) < masters[AssetOfKey(k)].max_dim - NEAR_MASTER
                 /\ variants[k].w <= masters[AssetOfKey(k)].buf.w
                 /\ variants[k].h <= masters[AssetOfKey(k)].buf.h)

\* a request at 1917 has returned the 1920 master while the asset has a
\* variant at 1915
C23_Witness ==
    /\ th[1].pc = "idle" /\ ret.ok
    /\ ret.val = <<1920, 1440, PixelsOf("land.jpg")>>
    /\ \E a \in DOMAIN masters :
          /\ masters[a].max_dim = 1920
          /\ cache_key(a, 1915) \in DOMAIN variants
          /\ cache_key(a, 1917) \notin DOMAIN variants

RECURSIVE LayersInOrder(_, _)
LayersInOrder(px, layers) ==
    IF layers = <<>> THEN px
    ELSE LET layer == layers[Len(layers)]
             below == LayersInOrder(px, SubSeq(layers, 1, Len(layers) - 1))
         IN  IF layer.enabled /\ layer.opacity > 0
             THEN apply_local_layer_in_place(below, layer)
             ELSE below

\* the pixel a recipe's global step gives
GlobalsOf(px, recipe, on_gpu) ==
    IF recipe = <<>> \/ globals_are_identity(recipe[1].globals) THEN px
    ELSE IF on_gpu THEN fs_globals(px, recipe[1].globals)
    ELSE apply_globals_in_place(px, recipe[1].globals)

\* C25: within one render the global step is the first step if it runs at
\* all and the layers follow in list order; the pixel encoded is the one the
\* enabled layers with opacity above 0 give in list order on the global
\* step's pixel; a disabled or zero-opacity layer leaves the pixel as it was,
\* and no layer changes alpha.
C25_GlobalsThenLayersInOrder ==
    /\ [](output # <<>> =>
            LET r == output[1] IN
            /\ \A i \in 1..Len(r.log) :
                   /\ r.log[i] = 0 => i = 1
                   /\ (i > 1 /\ r.log[i - 1] # 0) => r.log[i] = r.log[i - 1] + 1
                   /\ (i > 1 /\ r.log[i - 1] = 0) => r.log[i] = 1
            /\ r.stage = "done" =>
                   r.working = LayersInOrder(
                       GlobalsOf(input.px, input.recipe, input.on_gpu),
                       IF input.recipe = <<>> THEN <<>>
                       ELSE input.recipe[1].layers))
    /\ [][(output # <<>> /\ output[1].stage = "layers") =>
             LET layer == input.recipe[1].layers[output[1].next] IN
             /\ output'[1].working[4] = output[1].working[4]
             /\ (~layer.enabled \/ layer.opacity <= 0) =>
                    output'[1].working = output[1].working]_vars

\* a render is done whose global step ran before three layers, the second
\* of them disabled, the first and the third changing the pixel
C25_Witness ==
    /\ output # <<>> /\ output[1].stage = "done"
    /\ output[1].log = <<0, 1, 2, 3>>
    /\ ~input.recipe[1].layers[2].enabled
    /\ input.recipe[1].layers[1].adjustments[1] > 0
    /\ input.recipe[1].layers[3].adjustments[1] < 0
    /\ input.recipe[1].layers[3].opacity > 0
    /\ output[1].working # GlobalsOf(input.px, input.recipe, input.on_gpu)

\* the GPU calls whose command buffer is submitted and not yet read back
InFlight == {t \in Threads : gth[t].pc = "wait"}

\* C26: with requests on several worker threads, at most one GPU call
\* (resize or global adjustment) is between the submission of its commands
\* and the end of its readback at any time.
C26_OneGpuCallInFlight == Cardinality(InFlight) <= 1

\* the cells of plane p that the sensor sampled
SampledIn(p) ==
    {i \in 1..(input.w * input.h) :
        PlaneOf(color_at(input.cfa, (i - 1) \div input.w, (i - 1) % input.w)) = p}

\* the sampled cells of plane p among the up to 8 cells around cell i
SampledAround(p, i) ==
    {n \in SampledIn(p) :
        /\ n # i
        /\ Abs(((n - 1) % input.w) - ((i - 1) % input.w)) <= 1
        /\ Abs(((n - 1) \div input.w) - ((i - 1) \div input.w)) <= 1}

RECURSIVE SampleSum(_, _)
SampleSum(p, S) ==
    IF S = {} THEN 0
    ELSE LET n == CHOOSE n \in S : TRUE
         IN  normalize_sample(input.data[n], input.black[p], input.white[p])
             + SampleSum(p, S \ {n})

\* C27: after the fill a sampled cell of a plane keeps its normalized
\* sample; a cell that was not sampled holds the mean of the sampled cells
\* among its up to 8 in-bounds neighbours, taken from the samples and not
\* from filled values, or its original value 0 if none of them was sampled.
C27_DemosaicFill ==
    output # <<>> =>
        \A p \in 1..3 : \A i \in 1..(input.w * input.h) :
            LET v == output[1].filled[p][i]
                near == SampledAround(p, i)
                count == Cardinality(near)
            IN  IF i \in SampledIn(p)
                THEN v = normalize_sample(input.data[i], input.black[p],
                                          input.white[p])
                ELSE IF count = 0 THEN v = 0
                ELSE /\ v * count <= SampleSum(p, near)
                     /\ SampleSum(p, near) < (v + 1) * count

\* a 3x3 RGGB sensor: the centre is a blue cell, its red value is the mean
\* of the four red corners, one of them at white level
C27_Witness ==
    /\ output # <<>>
    /\ input.w = 3 /\ input.h = 3 /\ input.cfa = <<0, 1, 1, 2>>
    /\ input.data[1] = 1000 /\ input.data[3] = 0
    /\ input.data[7] = 0 /\ input.data[9] = 0
    /\ input.data[2] = 1000 /\ input.data[5] = 1000
    /\ output[1].filled[1][5] = FX \div 4
    /\ output[1].filled[3][5] = FX

C29_OrderMatchesMasters ==
    Quiescent =>
        /\ Range(lru) = DOMAIN masters
        /\ \A i, j \in 1..Len(lru) : lru[i] = lru[j] => i = j

\* the bytes of the thumbnail made from the placeholder
PlaceholderBytes ==
    encode_png_fast(resize_rgba_preserve_aspect(placeholder_rgba, THUMB_DIM))

\* C30: once a thumbnail made from the placeholder has been returned for an
\* asset, every load_or_create_thumbnail for that asset that begins later
\* returns the placeholder's bytes from the cache file and does not decode,
\* whether or not the source decodes by then.
C30_PlaceholderStaysCached ==
    [][\A t \in Threads :
          (/\ th[t].pc \in ThumbPcs /\ th'[t].pc = "idle"
           /\ t \in served.after
           /\ served.bytes[th[t].asset] = PlaceholderBytes)
          => /\ th[t].pc = "lt_read"
             /\ ret'.ok
             /\ ret'.val = PlaceholderBytes]_vars

====
